---- MODULE Spec2Model ----
(***************************************************************************)
(* Article scoring, caching and de-duplication layer of CCFarms.           *)
(*                                                                         *)
(* The article_scores collection is a set of documents; every document     *)
(* carries the ObjectId the database gave it (id).  Time is a counter of   *)
(* clock ticks read by datetime.now(); cache_days is the constructor       *)
(* parameter of the store, counted in the same unit.  A PyMongoError of    *)
(* the driver is an input (ok = FALSE) of every database operation.        *)
(***************************************************************************)
EXTENDS Integers, Sequences, FiniteSets, TLC

VARIABLES
    now,              \* datetime.now()
    cache_days,       \* ArticleScoresStore.cache_days
    collection,       \* the article_scores collection
    nextId,           \* the next ObjectId the database hands out
    ret,              \* what the last call of the store's interface returned
    lastSave,         \* history of call_save_score: url -> the last title and score, and when
    news_client,      \* ArticleScorer.news_client is set
    cache,            \* ArticleScorer.cache is set
    pc,               \* where the run of dig_for_news stands
    articles,         \* response["articles"] of the news client
    idx,              \* the article the loop of quick_score_articles is at
    article_score,    \* the score of the article at idx, once computed
    scored_articles,  \* quick_score_articles: scored_articles
    events,           \* history: the cache lookups, LLM scorings and saves of the run
    result,           \* what dig_for_news returned
    retry_pc,         \* where the call of _call_llm_with_retry stands
    attempt_number,   \* tenacity: the number of the attempt being made
    responses,        \* history: what the LLM answered to each attempt of the call
    retry_result,     \* what generate_reply_with_raw_prompt got or returned
    briefs,           \* the article_briefs collection
    nextBriefId,      \* the next ObjectId of article_briefs
    top_articles,     \* the last call of get_top_articles and what it returned
    analyzed,         \* analyze_articles: how many of top_articles it has been through
    news_scoring,     \* the run of news_scoring_flow
    satirist,         \* the run of satirist_flow
    runs,             \* two runs of quick_score_articles against one store
    digger,           \* the call of Digger.quick_score_articles(articles, threshold)
    scripts,          \* the comedy_scripts collection
    script_ret,       \* what the last call of ScriptStorage returned
    brief_ret,        \* what the last call of BriefStorage returned
    analysis,         \* the call of analyze_articles
    upload,           \* the call of upload_video_to_youtube
    video,            \* the call of VideoScript.convert_to_video
    batch             \* the call of process_all_files and the three directories

storeVars == <<collection, nextId>>
scorerVars == <<news_client, cache, pc, articles, idx, article_score,
                scored_articles, events, result>>
agentVars == <<retry_pc, attempt_number, responses, retry_result>>
flowVars == <<briefs, nextBriefId, top_articles, analyzed>>
vars == <<now, cache_days, collection, nextId, ret, lastSave, news_client, cache,
          pc, articles, idx, article_score, scored_articles, events, result,
          retry_pc, attempt_number, responses, retry_result,
          briefs, nextBriefId, top_articles, analyzed,
          news_scoring, satirist, runs, digger, scripts, script_ret, brief_ret, analysis, upload, video, batch>>
laterVars == <<news_scoring, satirist, runs, digger, scripts, script_ret, brief_ret, analysis, upload, video, batch>>
baseVars == <<now, cache_days, collection, nextId, ret, lastSave, scorerVars, agentVars,
              flowVars>>

\* What the operations of one component leave alone in the others.
outsideStore == <<scorerVars, agentVars, flowVars, laterVars>>
outsideScorer == <<ret, lastSave, agentVars, flowVars, laterVars>>
outsideAgent == <<now, cache_days, collection, nextId, ret, lastSave, scorerVars, flowVars,
                  laterVars>>
outsideFlow == <<ret, lastSave, scorerVars, agentVars, laterVars>>
outsideNewsScoring == <<baseVars, satirist, runs, digger, scripts, script_ret, brief_ret, analysis, upload, video, batch>>
outsideSatirist == <<baseVars, news_scoring, runs, digger, scripts, script_ret, brief_ret, analysis, upload, video, batch>>
outsideScripts == <<baseVars, news_scoring, satirist, runs, digger, brief_ret, analysis, upload, video, batch>>
outsideSatiristStore == <<baseVars, news_scoring, runs, digger, brief_ret, analysis, upload, video, batch>>
outsideRuns == <<now, cache_days, ret, lastSave, scorerVars, agentVars, flowVars,
                 news_scoring, satirist, digger, scripts, script_ret, brief_ret, analysis, upload, video, batch>>
outsideDigger == <<cache_days, ret, lastSave, scorerVars, agentVars, flowVars,
                   news_scoring, satirist, runs, scripts, script_ret, brief_ret, analysis, upload, video, batch>>
outsideAnalysis == <<now, cache_days, collection, nextId, ret, lastSave, scorerVars,
                     agentVars, top_articles, analyzed, news_scoring, satirist, runs,
                     digger, scripts, script_ret, brief_ret, upload, video, batch>>
outsideBriefs == <<now, cache_days, collection, nextId, ret, lastSave, scorerVars,
                   agentVars, top_articles, analyzed, news_scoring, satirist, runs,
                   digger, scripts, script_ret, analysis, upload, video, batch>>
outsideUpload == <<baseVars, news_scoring, satirist, runs, digger, scripts, script_ret, brief_ret,
                  analysis, video, batch>>
outsideVideo == <<baseVars, news_scoring, satirist, runs, digger, scripts, script_ret, brief_ret,
                 analysis, upload, batch>>
outsideBatch == <<cache_days, collection, nextId, ret, lastSave, scorerVars, agentVars,
                 flowVars, news_scoring, satirist, runs, digger, scripts, script_ret,
                 brief_ret, analysis, upload, video>>

-----------------------------------------------------------------------------
(* Bounds of the model *)

MaxTime == 3
MaxCacheDays == 2
MaxId == 3

URLs == {"u1", "u2"}
Titles == {"t1", "t2"}

None == [none |-> TRUE]

\* ArticleScore: score is an int with ge=0, le=10; reason is a string.
ScoreMin == 0
ScoreMax == 10
ErrorReason == "Error in scoring"
ArticleScore(score, reason) == [score |-> score, reason |-> reason]
ValidScore(score) == ScoreMin <= score /\ score <= ScoreMax

\* The scores the callers of the store hand to it.
ScoreResults == {ArticleScore(7, "r"), ArticleScore(0, ErrorReason)}

-----------------------------------------------------------------------------
(* ArticleScoresStore *)

Matching(coll, url) == {d \in coll : d.url = url}

FirstMatch(coll, url) ==
    CHOOSE d \in Matching(coll, url) : \A e \in Matching(coll, url) : d.id <= e.id

\* A mutant of update_one: insert_one, which never looks for the URL.
update_one_insert(coll, id, url, doc) == coll \cup {[id |-> id] @@ doc}

\* collection.update_one({"url": url}, {"$set": doc}, upsert=True)
update_one(coll, id, url, doc) ==
    IF Matching(coll, url) = {}
    THEN coll \cup {[id |-> id] @@ doc}
    ELSE LET d == FirstMatch(coll, url)
         IN  (coll \ {d}) \cup {[id |-> d.id] @@ doc}

\* A mutant of save_score: insert_one in place of update_one(..., upsert=True).
save_score_insert(coll, id, t, url, title, score_result) ==
    coll \cup {[id |-> id, url |-> url, title |-> title, cached_at |-> t,
                score_result |-> score_result]}

\* save_score: the collection after the call (ok), PyMongoError re-raised otherwise.
save_score(coll, id, t, url, title, score_result) ==
    update_one(coll, id, url,
               [url |-> url, title |-> title, cached_at |-> t,
                score_result |-> score_result])

\* A mutant of get_score: "$gte" in place of "$gt".
get_score_gte(coll, t, days, url, ok) ==
    IF ~ok THEN None
    ELSE LET cutoff_date == t - days
             found == {d \in Matching(coll, url) : d.cached_at >= cutoff_date}
         IN  IF found = {} THEN None
             ELSE (CHOOSE d \in found : \A e \in found : d.id <= e.id).score_result

\* get_score: find_one({"url": url, "cached_at": {"$gt": cutoff_date}})
get_score(coll, t, days, url, ok) ==
    IF ~ok THEN None
    ELSE LET cutoff_date == t - days
             found == {d \in Matching(coll, url) : d.cached_at > cutoff_date}
         IN  IF found = {} THEN None
             ELSE (CHOOSE d \in found : \A e \in found : d.id <= e.id).score_result

\* The sequences that list the documents of S by score_result.score, highest first
\* (the database fixes no order among equal keys).
SortedByScore(S) ==
    {s \in [1..Cardinality(S) -> S] :
        /\ \A i, j \in 1..Cardinality(S) : i # j => s[i] # s[j]
        /\ \A i, j \in 1..Cardinality(S) :
              i < j => s[i].score_result.score >= s[j].score_result.score}

Min(a, b) == IF a < b THEN a ELSE b

\* list_scores: find({"cached_at": {"$gt": cutoff}}).sort(field, -1).limit(limit)
list_scores(coll, t, days, limit, ok) ==
    IF ~ok THEN {<< >>}
    ELSE LET cutoff_date == t - days
             live == {d \in coll : d.cached_at > cutoff_date}
         IN  {SubSeq(s, 1, Min(limit, Len(s))) : s \in SortedByScore(live)}

\* A mutant of cleanup_expired: the cutoff is one tick too early.
cleanup_expired_late(coll, t, days, ok) ==
    IF ~ok THEN [collection |-> coll, deleted_count |-> 0]
    ELSE LET gone == {d \in coll : d.cached_at < t - days - 1}
         IN  [collection |-> coll \ gone, deleted_count |-> Cardinality(gone)]

\* A mutant of cleanup_expired: the cutoff is now, cache_days forgotten.
cleanup_expired_now(coll, t, days, ok) ==
    IF ~ok THEN [collection |-> coll, deleted_count |-> 0]
    ELSE LET gone == {d \in coll : d.cached_at < t}
         IN  [collection |-> coll \ gone, deleted_count |-> Cardinality(gone)]

\* cleanup_expired: delete_many({"cached_at": {"$lt": cutoff_date}})
cleanup_expired(coll, t, days, ok) ==
    IF ~ok THEN [collection |-> coll, deleted_count |-> 0]
    ELSE LET cutoff_date == t - days
             gone == {d \in coll : d.cached_at < cutoff_date}
         IN  [collection |-> coll \ gone, deleted_count |-> Cardinality(gone)]

-----------------------------------------------------------------------------
(* The components a specification does not run stay as constructed *)

AgentIdle ==
    /\ retry_pc = "idle"
    /\ attempt_number = 0
    /\ responses = << >>
    /\ retry_result = None

FlowIdle ==
    /\ briefs = {}
    /\ nextBriefId = 1
    /\ top_articles = None
    /\ analyzed = 0

LaterIdle ==
    /\ news_scoring = [pc |-> "idle"]
    /\ satirist = [pc |-> "idle"]
    /\ runs = [run |-> << >>, computed |-> {}]
    /\ digger = [pc |-> "idle"]
    /\ scripts = {}
    /\ script_ret = [op |-> "init"]
    /\ brief_ret = [op |-> "init"]
    /\ analysis = [pc |-> "idle"]
    /\ upload = [pc |-> "idle"]
    /\ video = [pc |-> "idle"]
    /\ batch = [pc |-> "idle"]

ScorerIdle ==
    /\ pc = "idle"
    /\ articles = << >>
    /\ idx = 0
    /\ article_score = None
    /\ scored_articles = << >>
    /\ events = << >>
    /\ result = None

-----------------------------------------------------------------------------
(* The store's interface called directly *)

InitStore ==
    /\ now = 0
    /\ cache_days \in 1..MaxCacheDays
    /\ collection = {}
    /\ nextId = 1
    /\ ret = [op |-> "init", at |-> 0]
    /\ lastSave = [u \in URLs |-> None]
    /\ news_client = TRUE
    /\ cache = TRUE
    /\ ScorerIdle
    /\ AgentIdle
    /\ FlowIdle
    /\ LaterIdle

Tick ==
    /\ now < MaxTime
    /\ now' = now + 1
    /\ UNCHANGED <<cache_days, collection, nextId, ret, lastSave, outsideStore>>

call_save_score ==
    \E url \in URLs, title \in Titles, score_result \in ScoreResults, ok \in BOOLEAN :
        /\ Matching(collection, url) = {} => nextId <= MaxId
        /\ IF ok
           THEN /\ collection' = save_score(collection, nextId, now, url, title, score_result)
                /\ nextId' = IF Matching(collection, url) = {} THEN nextId + 1 ELSE nextId
                /\ lastSave' = [lastSave EXCEPT
                                  ![url] = [title |-> title, score_result |-> score_result,
                                            at |-> now]]
                /\ ret' = [op |-> "save_score", at |-> now, url |-> url, raised |-> FALSE]
           ELSE /\ ret' = [op |-> "save_score", at |-> now, url |-> url, raised |-> TRUE]
                /\ UNCHANGED <<collection, nextId, lastSave>>
        /\ UNCHANGED <<now, cache_days, outsideStore>>

call_get_score ==
    \E url \in URLs, ok \in BOOLEAN :
        /\ ret' = [op |-> "get_score", at |-> now, url |-> url, ok |-> ok,
                   value |-> get_score(collection, now, cache_days, url, ok)]
        /\ UNCHANGED <<now, cache_days, collection, nextId, lastSave, outsideStore>>

call_list_scores ==
    \E limit \in 1..2, ok \in BOOLEAN :
        \E s \in list_scores(collection, now, cache_days, limit, ok) :
            /\ ret' = [op |-> "list_scores", at |-> now, ok |-> ok, value |-> s]
            /\ UNCHANGED <<now, cache_days, collection, nextId, lastSave, outsideStore>>

call_cleanup_expired ==
    \E ok \in BOOLEAN :
        LET r == cleanup_expired(collection, now, cache_days, ok)
        IN  /\ collection' = r.collection
            /\ ret' = [op |-> "cleanup_expired", at |-> now, ok |-> ok,
                       value |-> r.deleted_count]
            /\ UNCHANGED <<now, cache_days, nextId, lastSave, outsideStore>>

Next ==
    \/ Tick
    \/ call_save_score
    \/ call_get_score
    \/ call_list_scores
    \/ call_cleanup_expired

Spec == InitStore /\ [][Next]_vars

-----------------------------------------------------------------------------
(* ArticleScorer: dig_for_news and quick_score_articles *)

MaxArticles == 2

Missing == "<missing>"            \* article.get(key) is None
Falsy(x) == x = Missing \/ x = ""
Raise == [raised |-> TRUE]

Article(title, description, url) ==
    [title |-> title, description |-> description, url |-> url]

TitleOf(url) == IF url = "u1" THEN "t1" ELSE "t2"

\* The articles the news client hands back.
ArticleValues ==
    {Article(TitleOf("u1"), "d", "u1"), Article(TitleOf("u2"), "d", "u2"),
     Article(Missing, "d", "u1"), Article("t1", "", "u2"), Article("t1", "d", Missing)}

ArticleLists == UNION {[1..n -> ArticleValues] : n \in 0..MaxArticles}

\* What the LLM answers to one scoring prompt: nothing usable (the call failed after
\* its retries, no tagged JSON), or JSON with a score.
LlmReplies ==
    {[kind |-> "error"], [kind |-> "json", score |-> 7], [kind |-> "json", score |-> 11]}

\* A mutant of the checks: the URL check forgotten.
Valid_without_url(article) ==
    ~Falsy(article.title) /\ ~Falsy(article.description)

\* if not title or not description: continue; if not url: continue
Valid(article) ==
    ~Falsy(article.title) /\ ~Falsy(article.description) /\ ~Falsy(article.url)

\* A mutant of the cache check: the cached score is never used.
CacheHit_never(found) == FALSE

\* if article_score:   (an ArticleScore object is truthy, None is not)
CacheHit(found) == found # None

\* generate_reply(..., response_model=ArticleScore): the validated model, or raises.
generate_reply(reply) ==
    IF reply.kind = "json" /\ ValidScore(reply.score)
    THEN ArticleScore(reply.score, "r")
    ELSE Raise

\* A mutant of _get_quick_score: no try/except around generate_reply.
get_quick_score_noexcept(reply) == generate_reply(reply)

\* _get_quick_score: except Exception -> ArticleScore(score=0, reason="Error ...")
get_quick_score(reply) ==
    IF generate_reply(reply) # Raise
    THEN generate_reply(reply)
    ELSE IF ValidScore(0) THEN ArticleScore(0, ErrorReason) ELSE Raise

\* A mutant of the sort: ascending (reverse=True forgotten).
RECURSIVE sorted_ascending(_)
sorted_ascending(seq) ==
    IF seq = << >> THEN << >>
    ELSE LET rest == sorted_ascending(SubSeq(seq, 1, Len(seq) - 1))
             x == seq[Len(seq)]
             k == Cardinality({i \in 1..Len(rest) : rest[i].score.score <= x.score.score})
         IN  SubSeq(rest, 1, k) \o <<x>> \o SubSeq(rest, k + 1, Len(rest))

\* sorted(scored_articles, key=lambda x: x[1].score, reverse=True): stable.
RECURSIVE sorted_by_score(_)
sorted_by_score(seq) ==
    IF seq = << >> THEN << >>
    ELSE LET rest == sorted_by_score(SubSeq(seq, 1, Len(seq) - 1))
             x == seq[Len(seq)]
             k == Cardinality({i \in 1..Len(rest) : rest[i].score.score >= x.score.score})
         IN  SubSeq(rest, 1, k) \o <<x>> \o SubSeq(rest, k + 1, Len(rest))

\* A mutant of the returned list: every entry takes the score of the first pair.
with_scores_of_first(scored) ==
    [i \in 1..Len(scored) |->
        [title |-> scored[i].article.title,
         description |-> scored[i].article.description,
         url |-> scored[i].article.url,
         comedy_score |-> scored[1].score.score,
         score_reason |-> scored[1].score.reason]]

\* [{**article, "comedy_score": ..., "score_reason": ...} for article, score in ...]
with_scores(scored) ==
    [i \in 1..Len(scored) |->
        [title |-> scored[i].article.title,
         description |-> scored[i].article.description,
         url |-> scored[i].article.url,
         comedy_score |-> scored[i].score.score,
         score_reason |-> scored[i].score.reason]]

\* The stores earlier runs can have left at time 0: per URL no record, or the record
\* a save_score at time 0 made.
EarlierStores ==
    {save_score(IF r1 = None THEN {}
                ELSE save_score({}, 1, 0, "u1", TitleOf("u1"), r1),
                IF r1 = None THEN 1 ELSE 2, 0, "u2", TitleOf("u2"), r2) :
        r1 \in ScoreResults \cup {None}, r2 \in ScoreResults}
    \cup {IF r1 = None THEN {} ELSE save_score({}, 1, 0, "u1", TitleOf("u1"), r1) :
             r1 \in ScoreResults \cup {None}}

InitScorer ==
    /\ now = 0
    /\ cache_days \in 1..MaxCacheDays
    /\ collection \in EarlierStores
    /\ nextId = Cardinality(collection) + 1
    /\ ret = [op |-> "init", at |-> 0]
    /\ lastSave = [u \in URLs |-> None]
    /\ news_client \in BOOLEAN
    /\ cache \in BOOLEAN
    /\ ScorerIdle
    /\ AgentIdle
    /\ FlowIdle
    /\ LaterIdle

TickScorer ==
    /\ now < MaxTime
    /\ now' = now + 1
    /\ UNCHANGED <<cache_days, collection, nextId, scorerVars, outsideScorer>>

set_news_client ==
    /\ pc = "idle"
    /\ ~news_client
    /\ news_client' = TRUE
    /\ UNCHANGED <<now, cache_days, collection, nextId, outsideScorer, cache, pc,
                   articles, idx, article_score, scored_articles, events, result>>

set_article_cache ==
    /\ pc = "idle"
    /\ ~cache
    /\ cache' = TRUE
    /\ UNCHANGED <<now, cache_days, collection, nextId, outsideScorer, news_client, pc,
                   articles, idx, article_score, scored_articles, events, result>>

\* A mutant of the checks before scoring: an empty article list is scored.
before_scoring_unchecked(has_client, has_cache, fetched, response) ==
    IF ~has_client \/ ~has_cache THEN "ValueError"
    ELSE IF ~fetched THEN "RetryError"
    ELSE "ok"

\* The checks of dig_for_news before quick_score_articles: what it raises, or "ok".
before_scoring(has_client, has_cache, fetched, response) ==
    IF ~has_client \/ ~has_cache THEN "ValueError"
    ELSE IF ~fetched THEN "RetryError"
    ELSE IF response = << >> THEN "RuntimeError"
    ELSE "ok"

\* dig_for_news up to the call of quick_score_articles.  fetched = FALSE: the news
\* client's get_everything raised after its retries.
dig_for_news_start ==
    /\ pc = "idle"
    /\ \E fetched \in BOOLEAN, response \in ArticleLists :
        LET outcome == before_scoring(news_client, cache, fetched, response)
        IN  /\ events' = << >>
            /\ scored_articles' = << >>
            /\ article_score' = None
            /\ IF outcome # "ok"
               THEN /\ pc' = "raised"
                    /\ result' = [raised |-> outcome]
                    /\ articles' = << >>
                    /\ idx' = 0
               ELSE /\ pc' = "loop"
                    /\ result' = None
                    /\ articles' = response
                    /\ idx' = 1
    /\ UNCHANGED <<now, cache_days, collection, nextId, outsideScorer, news_client, cache>>

\* for article in articles: ... continue   (missing title, description or URL)
quick_score_articles_skip ==
    /\ pc = "loop"
    /\ idx <= Len(articles)
    /\ ~Valid(articles[idx])
    /\ idx' = idx + 1
    /\ UNCHANGED <<now, cache_days, collection, nextId, outsideScorer, news_client, cache,
                   pc, articles, article_score, scored_articles, events, result>>

\* article_score = self.cache.get_score(url); if article_score: append, continue
quick_score_articles_lookup ==
    /\ pc = "loop"
    /\ idx <= Len(articles)
    /\ Valid(articles[idx])
    /\ \E ok \in BOOLEAN :
        LET found == get_score(collection, now, cache_days, articles[idx].url, ok)
        IN  /\ events' = Append(events, [op |-> "get_score", i |-> idx, ok |-> ok,
                                         hit |-> found # None, found |-> found])
            /\ IF CacheHit(found)
               THEN /\ scored_articles' =
                          Append(scored_articles, [article |-> articles[idx], score |-> found])
                    /\ idx' = idx + 1
                    /\ pc' = "loop"
               ELSE /\ pc' = "score"
                    /\ UNCHANGED <<scored_articles, idx>>
    /\ UNCHANGED <<now, cache_days, collection, nextId, outsideScorer, news_client, cache,
                   articles, article_score, result>>

\* article_score = self._get_quick_score(article)
quick_score_articles_score ==
    /\ pc = "score"
    /\ \E reply \in LlmReplies :
        /\ events' = Append(events, [op |-> "llm", i |-> idx,
                                     failed |-> generate_reply(reply) = Raise,
                                     score |-> get_quick_score(reply)])
        /\ IF get_quick_score(reply) = Raise
           THEN /\ pc' = "raised"
                /\ result' = [raised |-> "Exception"]
                /\ UNCHANGED article_score
           ELSE /\ pc' = "save"
                /\ article_score' = get_quick_score(reply)
                /\ UNCHANGED result
    /\ UNCHANGED <<now, cache_days, collection, nextId, outsideScorer, news_client, cache,
                   articles, idx, scored_articles>>

\* self.cache.save_score(url, title, article_score); scored_articles.append(...)
quick_score_articles_save ==
    /\ pc = "save"
    /\ \E ok \in BOOLEAN :
        /\ events' = Append(events, [op |-> "save_score", i |-> idx, ok |-> ok])
        /\ IF ok
           THEN /\ collection' = save_score(collection, nextId, now, articles[idx].url,
                                            articles[idx].title, article_score)
                /\ nextId' = IF Matching(collection, articles[idx].url) = {}
                             THEN nextId + 1 ELSE nextId
                /\ scored_articles' =
                      Append(scored_articles,
                             [article |-> articles[idx], score |-> article_score])
                /\ idx' = idx + 1
                /\ pc' = "loop"
                /\ UNCHANGED result
           ELSE /\ pc' = "raised"
                /\ result' = [raised |-> "PyMongoError"]
                /\ UNCHANGED <<collection, nextId, scored_articles, idx>>
    /\ article_score' = None
    /\ UNCHANGED <<now, cache_days, outsideScorer, news_client, cache, articles>>

\* return sorted(scored_articles, ...)
quick_score_articles_return ==
    /\ pc = "loop"
    /\ idx > Len(articles)
    /\ scored_articles' = sorted_by_score(scored_articles)
    /\ pc' = "cleanup"
    /\ UNCHANGED <<now, cache_days, collection, nextId, outsideScorer, news_client, cache,
                   articles, idx, article_score, events, result>>

\* cleanup_count = self.cache.cleanup_expired(); return [...]
dig_for_news_cleanup ==
    /\ pc = "cleanup"
    /\ \E ok \in BOOLEAN :
        /\ collection' = cleanup_expired(collection, now, cache_days, ok).collection
        /\ events' = Append(events, [op |-> "cleanup_expired", at |-> now, ok |-> ok])
    /\ result' = [value |-> with_scores(scored_articles)]
    /\ pc' = "done"
    /\ UNCHANGED <<now, cache_days, nextId, outsideScorer, news_client, cache,
                   articles, idx, article_score, scored_articles>>

NextScorer ==
    \/ TickScorer
    \/ set_news_client
    \/ set_article_cache
    \/ dig_for_news_start
    \/ quick_score_articles_skip
    \/ quick_score_articles_lookup
    \/ quick_score_articles_score
    \/ quick_score_articles_save
    \/ quick_score_articles_return
    \/ dig_for_news_cleanup

SpecScorer == InitScorer /\ [][NextScorer]_vars

-----------------------------------------------------------------------------
(* BaseAgent: _call_llm_with_retry and generate_reply_with_raw_prompt *)

\* @retry(stop=stop_after_attempt(3), ...)
MaxAttempts == 3

\* What self.agent.generate_reply hands back: it raises, or returns None, a string,
\* or a dict whose content is missing, not a string, or a string.
Contents ==
    {[type |-> "missing"], [type |-> "none"], [type |-> "list"]}
    \cup {[type |-> "str", text |-> t] :
            t \in {"tagged score", "tagged bad score", "no tags", "bad json", "tagged list"}}

LlmResponses ==
    {[type |-> "raise"], [type |-> "none"], [type |-> "str"]}
    \cup {[type |-> "dict", content |-> c] : c \in Contents}

\* The body of _call_llm_with_retry: the exception it raises, or "return".
call_llm(response) ==
    IF response.type = "raise" THEN "Exception"
    ELSE IF response.type = "none" THEN "LLMInteractionError"
    ELSE IF response.type # "dict" THEN "LLMInteractionError"
    ELSE IF response.content.type \in {"missing", "none"} \/ response.content.type # "str"
    THEN "LLMInteractionError"
    ELSE "return"

\* A mutant of the stop condition: one attempt more.
stop_after_attempt_late(n) == n >= MaxAttempts + 1

\* stop_after_attempt(3)
stop_after_attempt(n) == n >= MaxAttempts

\* _extract_tagged_json and response_model.parse_obj on the content of a response.
parse_reply(text) ==
    IF text = "no tags" \/ text = "bad json" \/ text = "tagged list"
    THEN [raised |-> "ResponseParsingError"]
    ELSE IF text = "tagged bad score"
    THEN [raised |-> "RuntimeError"]
    ELSE [value |-> ArticleScore(7, "r")]

InitAgent ==
    /\ now = 0
    /\ cache_days = 1
    /\ collection = {}
    /\ nextId = 1
    /\ ret = [op |-> "init", at |-> 0]
    /\ lastSave = [u \in URLs |-> None]
    /\ news_client = TRUE
    /\ cache = TRUE
    /\ ScorerIdle
    /\ AgentIdle
    /\ FlowIdle
    /\ LaterIdle

\* generate_reply_with_raw_prompt: response = self._call_llm_with_retry(prompt)
generate_reply_with_raw_prompt_call ==
    /\ retry_pc \in {"idle", "finished"}
    /\ retry_pc' = "calling"
    /\ attempt_number' = 1
    /\ responses' = << >>
    /\ retry_result' = None
    /\ UNCHANGED outsideAgent

\* One attempt of _call_llm_with_retry, and tenacity's decision after it.
call_llm_with_retry_attempt ==
    /\ retry_pc = "calling"
    /\ \E response \in LlmResponses :
        /\ responses' = Append(responses, response)
        /\ IF call_llm(response) = "return"
           THEN /\ retry_pc' = "returned"
                /\ retry_result' = response
           ELSE IF stop_after_attempt(attempt_number)
           THEN /\ retry_pc' = "raised"
                /\ retry_result' = [raised |-> "RetryError"]
           ELSE /\ retry_pc' = "waiting"
                /\ UNCHANGED retry_result
    /\ UNCHANGED <<attempt_number, outsideAgent>>

\* wait_random_exponential(multiplier=1, max=60), then the next attempt
call_llm_with_retry_wait ==
    /\ retry_pc = "waiting"
    /\ retry_pc' = "calling"
    /\ attempt_number' = attempt_number + 1
    /\ UNCHANGED <<responses, retry_result, outsideAgent>>

\* generate_reply_with_raw_prompt after the call: parse, or re-raise / wrap.
generate_reply_with_raw_prompt_finish ==
    /\ retry_pc \in {"returned", "raised"}
    /\ retry_pc' = "finished"
    /\ retry_result' = IF retry_pc = "raised"
                       THEN [raised |-> "RuntimeError"]
                       ELSE parse_reply(retry_result.content.text)
    /\ UNCHANGED <<attempt_number, responses, outsideAgent>>

NextAgent ==
    \/ generate_reply_with_raw_prompt_call
    \/ call_llm_with_retry_attempt
    \/ call_llm_with_retry_wait
    \/ generate_reply_with_raw_prompt_finish

SpecAgent == InitAgent /\ [][NextAgent]_vars

-----------------------------------------------------------------------------
(* The debriefer flow: ArticleCache, BriefStorage and get_top_articles *)

MaxLimit == 2
CachedScores == {7}

\* str(doc["_id"])
str(oid) == ToString(oid)

\* dict.get(key): the value, or None when the key is absent
get(d, key) == IF key \in DOMAIN d THEN d[key] ELSE Missing

\* ArticleCache.cache_score: the collection after update_one(..., upsert=True)
cache_score(coll, id, t, url, title, score, reason) ==
    update_one(coll, id, url,
               [url |-> url, title |-> title, score |-> score, reason |-> reason,
                cached_at |-> t])

\* Listings(S): the lists holding each document of S once
Listings(S) ==
    {s \in [1..Cardinality(S) -> S] : \A i, j \in 1..Cardinality(S) : i # j => s[i] # s[j]}

\* find(...).sort("score", -1): the orders the database can return
DescendingByScore(S) ==
    {s \in Listings(S) : \A i, j \in 1..Len(s) : i < j => s[i].score >= s[j].score}

\* find().sort("timestamp", -1): the orders the database can return
DescendingByTimestamp(S) ==
    {s \in Listings(S) : \A i, j \in 1..Len(s) : i < j => s[i].timestamp >= s[j].timestamp}

\* ArticleCache.get_all_cached: the lists it can return
get_all_cached(coll, t, days, ok) ==
    IF ~ok THEN {<< >>}
    ELSE LET cutoff_date == t - days
             results == DescendingByScore({d \in coll : d.cached_at > cutoff_date})
         IN  {[k \in 1..Len(r) |->
                 [_id |-> str(r[k].id), url |-> r[k].url, title |-> r[k].title,
                  score |-> r[k].score, reason |-> r[k].reason,
                  cached_at |-> r[k].cached_at]] : r \in results}

\* A mutant of store_brief: insert_one in place of update_one(..., upsert=True).
store_brief_insert(coll, id, t, article_id, model_output, metadata) ==
    coll \cup {[id |-> id, article_id |-> article_id, model_output |-> model_output,
                timestamp |-> t, metadata |-> metadata]}

\* BriefStorage.store_brief: update_one({"article_id": article_id}, ..., upsert=True)
store_brief(coll, id, t, article_id, model_output, metadata) ==
    LET document == [article_id |-> article_id, model_output |-> model_output,
                     timestamp |-> t, metadata |-> metadata]
        old == {b \in coll : b.article_id = article_id}
    IN  IF old = {}
        THEN coll \cup {[id |-> id] @@ document}
        ELSE LET b == CHOOSE x \in old : \A y \in old : x.id <= y.id
             IN  (coll \ {b}) \cup {[id |-> b.id] @@ document}

\* BriefStorage.get_all_briefs: [{'doc': doc, "_id": str(doc["_id"])} for doc in results]
get_all_briefs(coll, limit, ok) ==
    IF ~ok THEN << >>
    ELSE LET results == CHOOSE r \in DescendingByTimestamp(coll) : TRUE
         IN  [k \in 1..Min(limit, Len(results)) |->
                 [doc |-> results[k], _id |-> str(results[k].id)]]

\* sorted(all_articles, key=cached_at, reverse=True): stable, newest first
RECURSIVE sorted_by_cached_at(_)
sorted_by_cached_at(seq) ==
    IF seq = << >> THEN << >>
    ELSE LET rest == sorted_by_cached_at(Tail(seq))
             x == Head(seq)
             later == SelectSeq(rest, LAMBDA y : y.cached_at > x.cached_at)
             notLater == SelectSeq(rest, LAMBDA y : ~(y.cached_at > x.cached_at))
         IN  later \o <<x>> \o notLater

\* The body of get_top_articles once all_articles has been read.
top_of(all_articles, existing_briefs, limit, reanalyze_existing) ==
    LET sorted_articles == sorted_by_cached_at(all_articles)
        briefed_article_ids ==
            IF reanalyze_existing THEN {}
            ELSE {get(existing_briefs[k], "article_id") :
                    k \in {i \in 1..Len(existing_briefs) :
                             ~Falsy(get(existing_briefs[i], "article_id"))}}
        filtered_articles ==
            SelectSeq(sorted_articles, LAMBDA a : get(a, "_id") \notin briefed_article_ids)
        chosen == IF reanalyze_existing THEN sorted_articles ELSE filtered_articles
    IN  SubSeq(chosen, 1, Min(limit, Len(chosen)))

BriefLimit == 1000

InitDebrief ==
    /\ now = 0
    /\ cache_days \in 1..MaxCacheDays
    /\ collection = {}
    /\ nextId = 1
    /\ ret = [op |-> "init", at |-> 0]
    /\ lastSave = [u \in URLs |-> None]
    /\ news_client = TRUE
    /\ cache = TRUE
    /\ ScorerIdle
    /\ AgentIdle
    /\ FlowIdle
    /\ LaterIdle

TickDebrief ==
    /\ now < MaxTime
    /\ now' = now + 1
    /\ UNCHANGED <<cache_days, collection, nextId, flowVars, outsideFlow>>

\* The digger caches the score of an article.
call_cache_score ==
    \E url \in URLs, score \in CachedScores, ok \in BOOLEAN :
        /\ Matching(collection, url) = {} => nextId <= MaxId
        /\ IF ok
           THEN /\ collection' = cache_score(collection, nextId, now, url, TitleOf(url),
                                             score, "r")
                /\ nextId' = IF Matching(collection, url) = {} THEN nextId + 1 ELSE nextId
           ELSE UNCHANGED <<collection, nextId>>
        /\ UNCHANGED <<now, cache_days, flowVars, outsideFlow>>

\* The task get_top_articles, first task of a run of the flow; briefed_at_call
\* records the article ids that had a stored brief when it ran.
get_top_articles ==
    /\ top_articles # None => analyzed = Len(top_articles.value)
    /\ \E limit \in 1..MaxLimit, reanalyze_existing \in BOOLEAN,
          okCache \in BOOLEAN, okBriefs \in BOOLEAN :
        \E all_articles \in get_all_cached(collection, now, cache_days, okCache) :
            /\ top_articles' =
                  [limit |-> limit, reanalyze_existing |-> reanalyze_existing,
                   value |-> top_of(all_articles,
                                    get_all_briefs(briefs, BriefLimit, okBriefs),
                                    limit, reanalyze_existing),
                   briefed_at_call |-> {b.article_id : b \in briefs}]
            /\ analyzed' = 0
            /\ UNCHANGED <<now, cache_days, collection, nextId, briefs, nextBriefId,
                           outsideFlow>>

\* analyze_articles: the task analyze_and_store_article on the next selected article.
analyze_and_store_article ==
    /\ top_articles # None
    /\ analyzed < Len(top_articles.value)
    /\ analyzed' = analyzed + 1
    /\ \E stored \in BOOLEAN :
        LET article == top_articles.value[analyzed + 1]
            article_id == get(article, "_id")
        IN  IF stored
               THEN /\ briefs' = store_brief(briefs, MaxId + nextBriefId, now, article_id,
                                             "model_output",
                                             [title |-> get(article, "title"),
                                              url |-> get(article, "url")])
                    /\ nextBriefId' =
                          IF \E b \in briefs : b.article_id = article_id
                          THEN nextBriefId ELSE nextBriefId + 1
               ELSE UNCHANGED <<briefs, nextBriefId>>
    /\ UNCHANGED <<now, cache_days, collection, nextId, top_articles, outsideFlow>>

NextDebrief ==
    \/ TickDebrief
    \/ call_cache_score
    \/ get_top_articles
    \/ analyze_and_store_article

SpecDebrief == InitDebrief /\ [][NextDebrief]_vars

-----------------------------------------------------------------------------
(* news_scoring_flow: score, publish the artifact, notify, return *)

\* The entries Digger.dig_for_news returns: title, score, reason.
ScoredEntries ==
    {[title |-> "t1", score |-> 7, reason |-> "r"],
     [title |-> "t2", score |-> 6, reason |-> "r"],
     [title |-> "t2", score |-> 9, reason |-> "r"]}

ScoredLists == UNION {[1..n -> ScoredEntries] : n \in 0..MaxArticles}

ArtifactIds == {"a1", "a2"}

\* A mutant of send_notification: the exception is not caught.
send_notification_raising(scored, load_ok, notify_ok) ==
    [raised |-> ~(load_ok /\ notify_ok), sent |-> load_ok /\ notify_ok]

\* send_notification: TeamsWebhook.load, notify; except Exception: log, do not raise.
send_notification(scored, load_ok, notify_ok) ==
    [raised |-> FALSE, sent |-> load_ok /\ notify_ok]

InitNewsScoring ==
    /\ now = 0
    /\ cache_days = 1
    /\ collection = {}
    /\ nextId = 1
    /\ ret = [op |-> "init", at |-> 0]
    /\ lastSave = [u \in URLs |-> None]
    /\ news_client = TRUE
    /\ cache = TRUE
    /\ ScorerIdle
    /\ AgentIdle
    /\ FlowIdle
    /\ LaterIdle

\* Secret.load, the Digger and its dependencies
news_scoring_flow_start ==
    /\ news_scoring.pc = "idle"
    /\ \E ok \in BOOLEAN :
        news_scoring' = IF ok THEN [pc |-> "digger"]
                        ELSE [pc |-> "failed", step |-> "initialize_digger"]
    /\ UNCHANGED outsideNewsScoring

\* scored_articles = process_news_articles(...)
process_news_articles ==
    /\ news_scoring.pc = "digger"
    /\ \/ \E scored \in ScoredLists :
            news_scoring' = [pc |-> "scored", scored_articles |-> scored]
       \/ news_scoring' = [pc |-> "failed", step |-> "process_news_articles"]
    /\ UNCHANGED outsideNewsScoring

\* artifact_id = create_results_artifact(scored_articles)
create_results_artifact ==
    /\ news_scoring.pc = "scored"
    /\ \/ \E id \in ArtifactIds :
            news_scoring' = [pc |-> "artifact",
                             scored_articles |-> news_scoring.scored_articles,
                             artifact_id |-> id]
       \/ news_scoring' = [pc |-> "failed", step |-> "create_results_artifact"]
    /\ UNCHANGED outsideNewsScoring

\* send_notification(articles=scored_articles, ...)
call_send_notification ==
    /\ news_scoring.pc = "artifact"
    /\ \E load_ok \in BOOLEAN, notify_ok \in BOOLEAN :
        LET out == send_notification(news_scoring.scored_articles, load_ok, notify_ok)
        IN  news_scoring' =
                IF out.raised
                THEN [pc |-> "failed", step |-> "send_notification"]
                ELSE [pc |-> "notified",
                      scored_articles |-> news_scoring.scored_articles,
                      artifact_id |-> news_scoring.artifact_id,
                      load_ok |-> load_ok, sent |-> out.sent]
    /\ UNCHANGED outsideNewsScoring

\* return scored_articles
news_scoring_flow_return ==
    /\ news_scoring.pc = "notified"
    /\ news_scoring' = [news_scoring EXCEPT !.pc = "done"]
                       @@ [result |-> news_scoring.scored_articles]
    /\ UNCHANGED outsideNewsScoring

NextNewsScoring ==
    \/ news_scoring_flow_start
    \/ process_news_articles
    \/ create_results_artifact
    \/ call_send_notification
    \/ news_scoring_flow_return

SpecNewsScoring == InitNewsScoring /\ [][NextNewsScoring]_vars

-----------------------------------------------------------------------------
(* ScriptStorage: the comedy_scripts collection *)

MaxScripts == 3
ScriptTitles == {"s1", "s2"}

\* The source_articles lists handed to store_script.
SourceLists == UNION {[1..n -> URLs] : n \in 1..MaxArticles}

\* store_script: insert_one(script_document)
store_script(coll, id, t, title, script_data, source_articles) ==
    coll \cup {[id |-> id, title |-> title, script_data |-> script_data,
                source_articles |-> source_articles, created_at |-> t]}

\* collection.find({field: value}): a document matches when it has the field and
\* the array stored under it holds the value.
find(coll, field, value) ==
    {d \in coll : /\ field \in DOMAIN d
                  /\ \E k \in 1..Len(d[field]) : d[field][k] = value}

\* The documents of S in the order of their insertion, each with "_id" as a string.
listed(S) ==
    LET RECURSIVE order(_)
        order(T) == IF T = {} THEN << >>
                    ELSE LET d == CHOOSE x \in T : \A y \in T : x.id <= y.id
                         IN  <<[_id |-> str(d.id), title |-> d.title,
                                source_articles |-> d.source_articles]>>
                             \o order(T \ {d})
    IN  order(S)

\* get_scripts_by_source: list(find({"source_article": article_id})), [] on PyMongoError
get_scripts_by_source(coll, article_id, ok) ==
    IF ~ok THEN << >> ELSE listed(find(coll, "source_article", article_id))

InitScripts ==
    /\ now = 0
    /\ cache_days = 1
    /\ collection = {}
    /\ nextId = 1
    /\ ret = [op |-> "init", at |-> 0]
    /\ lastSave = [u \in URLs |-> None]
    /\ news_client = TRUE
    /\ cache = TRUE
    /\ ScorerIdle
    /\ AgentIdle
    /\ FlowIdle
    /\ LaterIdle

call_store_script ==
    /\ Cardinality(scripts) < MaxScripts
    /\ \E title \in ScriptTitles, source_articles \in SourceLists, ok \in BOOLEAN :
        LET id == Cardinality(scripts) + 1
        IN  IF ok
            THEN /\ scripts' = store_script(scripts, id, now, title, "script",
                                            source_articles)
                 /\ script_ret' = [op |-> "store_script", value |-> str(id)]
            ELSE /\ UNCHANGED scripts
                 /\ script_ret' = [op |-> "store_script", raised |-> TRUE]
    /\ UNCHANGED outsideScripts

call_get_scripts_by_source ==
    /\ \E article_id \in URLs, ok \in BOOLEAN :
        script_ret' = [op |-> "get_scripts_by_source", article_id |-> article_id,
                       ok |-> ok,
                       value |-> get_scripts_by_source(scripts, article_id, ok)]
    /\ UNCHANGED <<scripts, outsideScripts>>

NextScripts ==
    \/ call_store_script
    \/ call_get_scripts_by_source

SpecScripts == InitScripts /\ [][NextScripts]_vars

-----------------------------------------------------------------------------
(* satirist_flow: score, write the script, store it, build the video, upload *)

\* What scorer.dig_for_news can return to the flow: the fetched articles with their scores.
TopArticleLists ==
    {with_scores([i \in 1..Len(l) |-> [article |-> l[i], score |-> ArticleScore(7, "r")]]) :
        l \in {a \in ArticleLists : \A i \in 1..Len(a) : Valid(a[i])}}

\* A mutant of the flow: the empty list is not checked.
after_scoring_unchecked(top) == "process_articles"

\* if not top_articles: return []
after_scoring(top) == IF top = << >> THEN "return" ELSE "process_articles"

\* article_urls = [article.get("url", f"unknown-{i}") for i, article in enumerate(...)]
article_urls(top) == [i \in 1..Len(top) |-> top[i].url]

InitSatirist ==
    /\ now = 0
    /\ cache_days = 1
    /\ collection = {}
    /\ nextId = 1
    /\ ret = [op |-> "init", at |-> 0]
    /\ lastSave = [u \in URLs |-> None]
    /\ news_client = TRUE
    /\ cache = TRUE
    /\ ScorerIdle
    /\ AgentIdle
    /\ FlowIdle
    /\ LaterIdle

\* The run so far, with one more step started.
started(step) == [satirist EXCEPT !.log = Append(@, step)]

\* Step 1: secrets, clients, storage and agents
satirist_flow_start ==
    /\ satirist.pc = "idle"
    /\ \E environment \in {"dev", "prod"}, ok \in BOOLEAN :
        satirist' = [pc |-> IF environment = "dev" /\ ok THEN "dig_for_news" ELSE "failed",
                     top_articles |-> None, script |-> None, script_id |-> None,
                     video |-> None, video_link |-> None, returned |-> None,
                     log |-> << >>]
    /\ UNCHANGED outsideSatirist

\* Step 2: top_articles = scorer.dig_for_news(...); if not top_articles: return []
satirist_dig_for_news ==
    /\ satirist.pc = "dig_for_news"
    /\ \/ \E top \in TopArticleLists :
            satirist' = [started("dig_for_news") EXCEPT
                            !.top_articles = top,
                            !.pc = IF after_scoring(top) = "return" THEN "done"
                                   ELSE after_scoring(top),
                            !.returned = IF after_scoring(top) = "return" THEN << >>
                                         ELSE None]
       \/ satirist' = [started("dig_for_news") EXCEPT !.pc = "failed"]
    /\ UNCHANGED outsideSatirist

\* script = satirist.process_articles(top_articles); None makes script.title raise
satirist_process_articles ==
    /\ satirist.pc = "process_articles"
    /\ \/ \E title \in ScriptTitles :
            satirist' = [started("process_articles") EXCEPT
                            !.script = title, !.pc = "store_script"]
       \/ satirist' = [started("process_articles") EXCEPT !.pc = "failed"]
    /\ UNCHANGED outsideSatirist

\* script_id = script_storage.store_script(title, script_data, source_articles)
satirist_store_script ==
    /\ satirist.pc = "store_script"
    /\ Cardinality(scripts) < MaxScripts
    /\ \E ok \in BOOLEAN :
        LET id == Cardinality(scripts) + 1
        IN  IF ok
            THEN /\ scripts' = store_script(scripts, id, now, satirist.script, "script",
                                            article_urls(satirist.top_articles))
                 /\ script_ret' = [op |-> "store_script", value |-> str(id)]
                 /\ satirist' = [started("store_script") EXCEPT
                                    !.script_id = str(id), !.pc = "convert_to_video"]
            ELSE /\ UNCHANGED scripts
                 /\ script_ret' = [op |-> "store_script", raised |-> TRUE]
                 /\ satirist' = [started("store_script") EXCEPT !.pc = "failed"]
    /\ UNCHANGED outsideSatiristStore

\* Step 4: os.makedirs, script.convert_to_video(...): the path, None, or it raises
satirist_convert_to_video ==
    /\ satirist.pc = "convert_to_video"
    /\ \/ \E out \in {"path", "none"} :
            satirist' = [started("convert_to_video") EXCEPT
                            !.video = out, !.pc = "upload_video_to_youtube"]
       \/ satirist' = [started("convert_to_video") EXCEPT !.pc = "failed"]
    /\ UNCHANGED outsideSatirist

\* Step 5: video_link = upload_video_to_youtube(...); the flow ends
satirist_upload_video ==
    /\ satirist.pc = "upload_video_to_youtube"
    /\ \E link \in {"link", "none"} :
        satirist' = [started("upload_video_to_youtube") EXCEPT
                        !.video_link = IF satirist.video = "none" THEN "none" ELSE link,
                        !.pc = "done"]
    /\ UNCHANGED outsideSatirist

NextSatirist ==
    \/ satirist_flow_start
    \/ satirist_dig_for_news
    \/ satirist_process_articles
    \/ satirist_store_script
    \/ satirist_convert_to_video
    \/ satirist_upload_video

SpecSatirist == InitSatirist /\ [][NextSatirist]_vars

-----------------------------------------------------------------------------
(* Two workflow runs of quick_score_articles against one article_scores collection. *)
(* A database operation is one step; the steps of the two runs interleave freely.   *)

Runs == {1, 2}

\* The articles one run is given: complete ones and one without URL.
RunArticles ==
    {Article(TitleOf("u1"), "d", "u1"), Article(TitleOf("u2"), "d", "u2"),
     Article("t1", "d", Missing)}

RunLists == UNION {[1..n -> RunArticles] : n \in 1..MaxArticles}

\* The save of run r: save_score(url, title=article["title"], score_result=article_score)
run_save_score(coll, id, t, run) ==
    save_score(coll, id, t, run.articles[run.idx].url, run.articles[run.idx].title,
               run.article_score)

InitRuns ==
    /\ now = 0
    /\ cache_days = 1
    /\ collection = {}
    /\ nextId = 1
    /\ ret = [op |-> "init", at |-> 0]
    /\ lastSave = [u \in URLs |-> None]
    /\ news_client = TRUE
    /\ cache = TRUE
    /\ ScorerIdle
    /\ AgentIdle
    /\ FlowIdle
    /\ news_scoring = [pc |-> "idle"]
    /\ satirist = [pc |-> "idle"]
    /\ digger = [pc |-> "idle"]
    /\ scripts = {}
    /\ script_ret = [op |-> "init"]
    /\ brief_ret = [op |-> "init"]
    /\ analysis = [pc |-> "idle"]
    /\ upload = [pc |-> "idle"]
    /\ video = [pc |-> "idle"]
    /\ batch = [pc |-> "idle"]
    /\ \E l1 \in RunLists, l2 \in RunLists :
        /\ Len(l1) <= Len(l2)      \* the two runs are interchangeable
        /\ runs = [run |-> [r \in Runs |->
                              [pc |-> "loop", articles |-> IF r = 1 THEN l1 ELSE l2,
                               idx |-> 1, article_score |-> None,
                               scored_articles |-> << >>]],
                   computed |-> {}]

\* if not title or not description: continue; if not url: continue
run_skip(r) ==
    /\ runs.run[r].pc = "loop"
    /\ runs.run[r].idx <= Len(runs.run[r].articles)
    /\ ~Valid(runs.run[r].articles[runs.run[r].idx])
    /\ runs' = [runs EXCEPT !.run[r].idx = @ + 1]
    /\ UNCHANGED <<collection, nextId, outsideRuns>>

\* article_score = self.cache.get_score(url); if article_score: append, continue
run_lookup(r) ==
    /\ runs.run[r].pc = "loop"
    /\ runs.run[r].idx <= Len(runs.run[r].articles)
    /\ Valid(runs.run[r].articles[runs.run[r].idx])
    /\ \E ok \in BOOLEAN :
        LET article == runs.run[r].articles[runs.run[r].idx]
            found == get_score(collection, now, cache_days, article.url, ok)
        IN  runs' = IF CacheHit(found)
                    THEN [runs EXCEPT !.run[r].scored_articles =
                                          Append(@, [article |-> article, score |-> found]),
                                      !.run[r].idx = @ + 1]
                    ELSE [runs EXCEPT !.run[r].pc = "score"]
    /\ UNCHANGED <<collection, nextId, outsideRuns>>

\* article_score = self._get_quick_score(article); self.cache.save_score(...);
\* scored_articles.append(...).  The LLM call touches nothing shared, so it is taken
\* together with the save that follows it; computed is the history of the scores
\* the runs computed, each with the URL it was computed for.  A PyMongoError of the
\* save ends the run.
run_score_and_save(r) ==
    /\ runs.run[r].pc = "score"
    /\ \E reply \in LlmReplies, ok \in BOOLEAN :
        LET article == runs.run[r].articles[runs.run[r].idx]
            scored == [runs EXCEPT
                          !.run[r].article_score = get_quick_score(reply),
                          !.computed = @ \cup {[url |-> article.url,
                                                score_result |-> get_quick_score(reply)]}]
        IN  IF ok
            THEN /\ collection' = run_save_score(collection, nextId, now, scored.run[r])
                 /\ nextId' = IF Matching(collection, article.url) = {}
                              THEN nextId + 1 ELSE nextId
                 /\ runs' = [scored EXCEPT
                                !.run[r].pc = "loop",
                                !.run[r].scored_articles =
                                    Append(@, [article |-> article,
                                               score |-> get_quick_score(reply)]),
                                !.run[r].article_score = None,
                                !.run[r].idx = @ + 1]
            ELSE /\ runs' = [scored EXCEPT !.run[r].pc = "raised"]
                 /\ UNCHANGED <<collection, nextId>>
    /\ UNCHANGED outsideRuns

\* return sorted(scored_articles, ...)
run_return(r) ==
    /\ runs.run[r].pc = "loop"
    /\ runs.run[r].idx > Len(runs.run[r].articles)
    /\ runs' = [runs EXCEPT !.run[r].pc = "returned",
                            !.run[r].scored_articles = sorted_by_score(@)]
    /\ UNCHANGED <<collection, nextId, outsideRuns>>

NextRuns ==
    \E r \in Runs :
        \/ run_skip(r)
        \/ run_lookup(r)
        \/ run_score_and_save(r)
        \/ run_return(r)

SpecRuns == InitRuns /\ [][NextRuns]_vars

-----------------------------------------------------------------------------
(* Digger.quick_score_articles(articles, threshold) over the ArticleCache *)

Thresholds == {6, 7}
DiggerScores == {5, 7}

\* What self.process answers to one scoring prompt: it raises, or a validated dict.
ProcessReplies == {[kind |-> "error"]} \cup {[kind |-> "json", score |-> s] : s \in DiggerScores}

\* ArticleCache.get_cached_score: find_one({"url": url, "cached_at": {"$gt": cutoff_date}})
get_cached_score(coll, t, days, url, ok) ==
    IF ~ok THEN None
    ELSE LET cutoff_date == t - days
             found == {d \in Matching(coll, url) : d.cached_at > cutoff_date}
         IN  IF found = {} THEN None
             ELSE LET d == CHOOSE x \in found : \A y \in found : x.id <= y.id
                  IN  [_id |-> str(d.id), url |-> d.url, title |-> d.title,
                       score |-> d.score, reason |-> d.reason, cached_at |-> d.cached_at]

\* Digger._get_quick_score: self.process(...), a dict with score 0 when it raises
digger_get_quick_score(reply) ==
    IF reply.kind = "json" THEN [score |-> reply.score, reason |-> "r"]
    ELSE [score |-> 0, reason |-> ErrorReason]

\* A mutant of the threshold test: strictly above.
meets_threshold_strict(score, threshold) == score > threshold

\* if cached['score'] >= threshold / if score['score'] >= threshold
meets_threshold(score, threshold) == score >= threshold

\* The entry quick_score_articles appends for an article.
scored_entry(title, score, reason, article) ==
    [title |-> title, score |-> score, reason |-> reason, original_article |-> article]

\* sorted(scored_articles, key=lambda x: x['score'], reverse=True): stable
RECURSIVE sorted_by_entry_score(_)
sorted_by_entry_score(seq) ==
    IF seq = << >> THEN << >>
    ELSE LET rest == sorted_by_entry_score(SubSeq(seq, 1, Len(seq) - 1))
             x == seq[Len(seq)]
             k == Cardinality({i \in 1..Len(rest) : rest[i].score >= x.score})
         IN  SubSeq(rest, 1, k) \o <<x>> \o SubSeq(rest, k + 1, Len(rest))

\* The caches earlier runs can have left at time 0.
EarlierCaches ==
    LET first(s1) == IF s1 = 0 THEN {}
                     ELSE cache_score({}, 1, 0, "u1", TitleOf("u1"), s1, "r")
    IN  {first(s1) : s1 \in DiggerScores \cup {0}}
        \cup {cache_score(first(s1), IF s1 = 0 THEN 1 ELSE 2, 0, "u2", TitleOf("u2"),
                          s2, "r") : s1 \in DiggerScores \cup {0}, s2 \in DiggerScores}

InitDigger ==
    /\ now = 0
    /\ cache_days = 1
    /\ collection \in EarlierCaches
    /\ nextId = Cardinality(collection) + 1
    /\ ret = [op |-> "init", at |-> 0]
    /\ lastSave = [u \in URLs |-> None]
    /\ news_client = TRUE
    /\ cache = TRUE
    /\ ScorerIdle
    /\ AgentIdle
    /\ FlowIdle
    /\ LaterIdle

TickDigger ==
    /\ digger.pc = "idle"
    /\ now < MaxTime
    /\ now' = now + 1
    /\ UNCHANGED <<collection, nextId, digger, outsideDigger>>

\* quick_score_articles(articles, threshold) is called
digger_quick_score_articles ==
    /\ digger.pc = "idle"
    /\ \E l \in RunLists, threshold \in Thresholds :
        digger' = [pc |-> "loop", articles |-> l, threshold |-> threshold, idx |-> 1,
                   score |-> None, scored_articles |-> << >>, events |-> << >>,
                   result |-> None]
    /\ UNCHANGED <<now, collection, nextId, outsideDigger>>

\* if not title or not description: continue; if not url: continue
digger_skip ==
    /\ digger.pc = "loop"
    /\ digger.idx <= Len(digger.articles)
    /\ ~Valid(digger.articles[digger.idx])
    /\ digger' = [digger EXCEPT !.idx = @ + 1]
    /\ UNCHANGED <<now, collection, nextId, outsideDigger>>

\* cached = self.cache.get_cached_score(url); if cached: (append if it meets the
\* threshold); continue
digger_lookup ==
    /\ digger.pc = "loop"
    /\ digger.idx <= Len(digger.articles)
    /\ Valid(digger.articles[digger.idx])
    /\ \E ok \in BOOLEAN :
        LET article == digger.articles[digger.idx]
            cached == get_cached_score(collection, now, cache_days, article.url, ok)
            logged == Append(digger.events,
                             [op |-> "get_cached_score", i |-> digger.idx,
                              hit |-> cached # None,
                              score |-> IF cached = None THEN -1 ELSE cached.score])
        IN  digger' =
              IF cached # None
              THEN [digger EXCEPT
                      !.events = logged,
                      !.idx = @ + 1,
                      !.scored_articles =
                          IF meets_threshold(cached.score, digger.threshold)
                          THEN Append(@, scored_entry(cached.title, cached.score,
                                                      cached.reason, article))
                          ELSE @]
              ELSE [digger EXCEPT !.events = logged, !.pc = "score"]
    /\ UNCHANGED <<now, collection, nextId, outsideDigger>>

\* score = self._get_quick_score(article)
digger_score ==
    /\ digger.pc = "score"
    /\ \E reply \in ProcessReplies :
        digger' = [digger EXCEPT
                     !.pc = "cache_score",
                     !.score = digger_get_quick_score(reply),
                     !.events = Append(@, [op |-> "llm", i |-> digger.idx,
                                           score |-> digger_get_quick_score(reply).score])]
    /\ UNCHANGED <<now, collection, nextId, outsideDigger>>

\* self.cache.cache_score(...); if score['score'] >= threshold: append
digger_cache_score ==
    /\ digger.pc = "cache_score"
    /\ \E ok \in BOOLEAN :
        LET article == digger.articles[digger.idx]
            logged == Append(digger.events,
                             [op |-> "cache_score", i |-> digger.idx, ok |-> ok,
                              score |-> digger.score.score])
        IN  IF ok
            THEN /\ collection' = cache_score(collection, nextId, now, article.url,
                                              article.title, digger.score.score,
                                              digger.score.reason)
                 /\ nextId' = IF Matching(collection, article.url) = {}
                              THEN nextId + 1 ELSE nextId
                 /\ digger' = [digger EXCEPT
                                 !.events = logged,
                                 !.pc = "loop",
                                 !.idx = @ + 1,
                                 !.score = None,
                                 !.scored_articles =
                                     IF meets_threshold(digger.score.score, digger.threshold)
                                     THEN Append(@, scored_entry(article.title,
                                                                 digger.score.score,
                                                                 digger.score.reason,
                                                                 article))
                                     ELSE @]
            ELSE /\ digger' = [digger EXCEPT !.events = logged, !.pc = "raised",
                                             !.result = [raised |-> "PyMongoError"]]
                 /\ UNCHANGED <<collection, nextId>>
    /\ UNCHANGED <<now, outsideDigger>>

\* return sorted(scored_articles, key=lambda x: x['score'], reverse=True)
digger_return ==
    /\ digger.pc = "loop"
    /\ digger.idx > Len(digger.articles)
    /\ digger' = [digger EXCEPT
                    !.pc = "returned",
                    !.result = [value |-> sorted_by_entry_score(digger.scored_articles)]]
    /\ UNCHANGED <<now, collection, nextId, outsideDigger>>

NextDigger ==
    \/ TickDigger
    \/ digger_quick_score_articles
    \/ digger_skip
    \/ digger_lookup
    \/ digger_score
    \/ digger_cache_score
    \/ digger_return

SpecDigger == InitDigger /\ [][NextDigger]_vars

-----------------------------------------------------------------------------
(* analyze_articles: analyse the selected articles one by one, store their briefs *)

\* The articles handed to analyze_articles: documents of the cache, one without URL.
AnalysisArticles ==
    {[_id |-> "1", title |-> "t1", url |-> "u1"],
     [_id |-> "2", title |-> "t2", url |-> "u2"],
     [_id |-> "3", title |-> "t1"]}

AnalysisLists == UNION {[1..n -> AnalysisArticles] : n \in 0..MaxArticles}

\* news_client.fetch_article_content(url): the text, nothing, or an exception
Fetches == {"text", "", "raised"}

\* A mutant of the task: no try/except around the fetch, the analysis and the storage.
analyze_and_store_article_uncaught(article, content, analysed, store_ok) ==
    IF Falsy(get(article, "url")) \/ content = ""
    THEN [value |-> None, stored |-> FALSE, raised |-> FALSE]
    ELSE IF content = "raised" \/ ~analysed \/ ~store_ok
    THEN [value |-> None, stored |-> FALSE, raised |-> TRUE]
    ELSE [value |-> [article_id |-> get(article, "_id"), title |-> get(article, "title"),
                     model_output |-> "brief"],
          stored |-> TRUE, raised |-> FALSE]

\* The task analyze_and_store_article on one article: what it returns, whether it
\* stored the brief, whether it raised.  analysed = FALSE: analyze_article raised;
\* store_ok = FALSE: store_brief raised.
analyze_and_store_article_task(article, content, analysed, store_ok) ==
    IF Falsy(get(article, "url"))
    THEN [value |-> None, stored |-> FALSE, raised |-> FALSE]
    ELSE IF content = "raised" \/ content = ""
    THEN [value |-> None, stored |-> FALSE, raised |-> FALSE]
    ELSE IF ~analysed \/ ~store_ok
    THEN [value |-> None, stored |-> FALSE, raised |-> FALSE]
    ELSE [value |-> [article_id |-> get(article, "_id"), title |-> get(article, "title"),
                     model_output |-> "brief"],
          stored |-> TRUE, raised |-> FALSE]

\* The briefs stored by earlier runs of the flow.
EarlierBriefs ==
    {{}, {[id |-> MaxId + 1, article_id |-> "1", model_output |-> "old brief",
           timestamp |-> 0, metadata |-> [title |-> "t1", url |-> "u1"]]}}

InitAnalysis ==
    /\ now = 1
    /\ cache_days = 1
    /\ collection = {}
    /\ nextId = 1
    /\ ret = [op |-> "init", at |-> 0]
    /\ lastSave = [u \in URLs |-> None]
    /\ news_client = TRUE
    /\ cache = TRUE
    /\ ScorerIdle
    /\ AgentIdle
    /\ top_articles = None
    /\ analyzed = 0
    /\ briefs \in EarlierBriefs
    /\ nextBriefId = Cardinality(briefs) + 1
    /\ LaterIdle

\* analyze_articles(debriefer, articles, brief_storage): if not articles: return []
analyze_articles_call ==
    /\ analysis.pc = "idle"
    /\ \E given \in AnalysisLists :
        analysis' = IF given = << >>
                    THEN [pc |-> "done", articles |-> given, idx |-> 1,
                          analyzed_articles |-> << >>, log |-> << >>]
                    ELSE [pc |-> "loop", articles |-> given, idx |-> 1,
                          analyzed_articles |-> << >>, log |-> << >>]
    /\ UNCHANGED <<briefs, nextBriefId, outsideAnalysis>>

\* for article in articles: result = analyze_and_store_article(...); if result: append
analyze_articles_next ==
    /\ analysis.pc = "loop"
    /\ analysis.idx <= Len(analysis.articles)
    /\ \E content \in Fetches, analysed \in BOOLEAN, store_ok \in BOOLEAN :
        LET article == analysis.articles[analysis.idx]
            article_id == get(article, "_id")
            task == analyze_and_store_article_task(article, content, analysed, store_ok)
            entry == [i |-> analysis.idx, content |-> content, analysed |-> analysed,
                      store_ok |-> store_ok, stored |-> task.stored]
        IN  /\ IF task.stored
               THEN /\ briefs' = store_brief(briefs, MaxId + nextBriefId, now, article_id,
                                             task.value.model_output,
                                             [title |-> get(article, "title"),
                                              url |-> get(article, "url")])
                    /\ nextBriefId' =
                          IF \E b \in briefs : b.article_id = article_id
                          THEN nextBriefId ELSE nextBriefId + 1
               ELSE UNCHANGED <<briefs, nextBriefId>>
            /\ analysis' =
                  IF task.raised
                  THEN [analysis EXCEPT !.pc = "raised", !.log = Append(@, entry)]
                  ELSE [analysis EXCEPT
                           !.idx = @ + 1,
                           !.log = Append(@, entry),
                           !.analyzed_articles =
                               IF task.value # None THEN Append(@, task.value) ELSE @]
    /\ UNCHANGED outsideAnalysis

\* return analyzed_articles
analyze_articles_return ==
    /\ analysis.pc = "loop"
    /\ analysis.idx > Len(analysis.articles)
    /\ analysis' = [analysis EXCEPT !.pc = "done"]
    /\ UNCHANGED <<briefs, nextBriefId, outsideAnalysis>>

NextAnalysis ==
    \/ analyze_articles_call
    \/ analyze_articles_next
    \/ analyze_articles_return

SpecAnalysis == InitAnalysis /\ [][NextAnalysis]_vars

-----------------------------------------------------------------------------
(* BriefStorage: store_brief and check_article_briefed *)

ArticleIds == {"1", "2"}
ModelOutputs == {"brief", "other brief"}

\* BriefStorage.check_article_briefed: find_one(...) is not None; False on PyMongoError
check_article_briefed(coll, article_id, ok) ==
    IF ~ok THEN FALSE
    ELSE \E b \in coll : b.article_id = article_id

InitBriefs ==
    /\ now = 0
    /\ cache_days = 1
    /\ collection = {}
    /\ nextId = 1
    /\ ret = [op |-> "init", at |-> 0]
    /\ lastSave = [u \in URLs |-> None]
    /\ news_client = TRUE
    /\ cache = TRUE
    /\ ScorerIdle
    /\ AgentIdle
    /\ FlowIdle
    /\ news_scoring = [pc |-> "idle"]
    /\ satirist = [pc |-> "idle"]
    /\ runs = [run |-> << >>, computed |-> {}]
    /\ digger = [pc |-> "idle"]
    /\ scripts = {}
    /\ script_ret = [op |-> "init"]
    /\ brief_ret = [op |-> "init", stored |-> {}]
    /\ analysis = [pc |-> "idle"]
    /\ upload = [pc |-> "idle"]
    /\ video = [pc |-> "idle"]
    /\ batch = [pc |-> "idle"]

TickBriefs ==
    /\ now < MaxTime
    /\ now' = now + 1
    /\ UNCHANGED <<cache_days, collection, nextId, ret, lastSave, scorerVars, agentVars,
                   flowVars, laterVars>>

\* store_brief(article_id, model_output, metadata); brief_ret.stored is the history of
\* the article ids for which a call returned.
call_store_brief ==
    \E article_id \in ArticleIds, model_output \in ModelOutputs, ok \in BOOLEAN :
        /\ nextBriefId <= MaxId
        /\ IF ok
           THEN /\ briefs' = store_brief(briefs, MaxId + nextBriefId, now, article_id,
                                         model_output, [title |-> "t1", url |-> "u1"])
                /\ nextBriefId' =
                      IF \E b \in briefs : b.article_id = article_id
                      THEN nextBriefId ELSE nextBriefId + 1
                /\ brief_ret' = [op |-> "store_brief", article_id |-> article_id,
                                 model_output |-> model_output, raised |-> FALSE,
                                 stored |-> brief_ret.stored \cup {article_id}]
           ELSE /\ brief_ret' = [op |-> "store_brief", article_id |-> article_id,
                                 model_output |-> model_output, raised |-> TRUE,
                                 stored |-> brief_ret.stored]
                /\ UNCHANGED <<briefs, nextBriefId>>
        /\ UNCHANGED outsideBriefs

call_check_article_briefed ==
    \E article_id \in ArticleIds, ok \in BOOLEAN :
        /\ brief_ret' = [op |-> "check_article_briefed", article_id |-> article_id,
                         ok |-> ok,
                         value |-> check_article_briefed(briefs, article_id, ok),
                         stored |-> brief_ret.stored]
        /\ UNCHANGED <<briefs, nextBriefId, outsideBriefs>>

NextBriefs ==
    \/ TickBriefs
    \/ call_store_brief
    \/ call_check_article_briefed

SpecBriefs == InitBriefs /\ [][NextBriefs]_vars

-----------------------------------------------------------------------------
(* upload_video_to_youtube *)

VideoIds == {"v1", "v2"}

\* Secret.load(client_secrets_block).get(): raises, lacks the "installed" key, or is fine
ClientSecrets == {"raised", "invalid", "installed"}

\* The credentials of the Secret block: none loaded, valid, expired with a refresh
\* token, or invalid without one
Credentials == {"none", "valid", "expired", "invalid"}

\* The title argument: empty or blank, within the limit, or longer than 100 characters
VideoTitles == {"", "a title", "a title of more than 100 characters"}

\* title = "Untitled Video" if blank; title[:97] + "..." if len(title) > 100
video_title(title) ==
    IF title = "" THEN "Untitled Video"
    ELSE IF title = "a title of more than 100 characters" THEN "a title of 97 characters..."
    ELSE title

\* A mutant of the end of the upload: the link is returned whatever execute() did.
upload_response_unchecked(executed, video_id) == "https://youtu.be/" \o video_id

\* response = request.execute(); return f"https://youtu.be/{response['id']}";
\* except Exception: return None
upload_response(executed, video_id) ==
    IF executed THEN "https://youtu.be/" \o video_id ELSE Missing

InitUpload ==
    /\ now = 0
    /\ cache_days = 1
    /\ collection = {}
    /\ nextId = 1
    /\ ret = [op |-> "init", at |-> 0]
    /\ lastSave = [u \in URLs |-> None]
    /\ news_client = TRUE
    /\ cache = TRUE
    /\ ScorerIdle
    /\ AgentIdle
    /\ FlowIdle
    /\ LaterIdle

\* if not os.path.exists(video_path): return None
upload_video_to_youtube ==
    /\ upload.pc = "idle"
    /\ \E file_exists \in BOOLEAN, title \in VideoTitles :
        upload' = [pc |-> IF file_exists THEN "secrets" ELSE "done",
                   file_exists |-> file_exists, title |-> title,
                   secrets |-> Missing, creds |-> "none", kept |-> "nowhere",
                   oauth_failed |-> FALSE, sent |-> << >>, value |-> Missing]
    /\ UNCHANGED outsideUpload

\* Secret.load(...).get(), json.loads; "installed" not in client_secrets: return None
upload_load_client_secrets ==
    /\ upload.pc = "secrets"
    /\ \E secrets \in ClientSecrets :
        upload' = [upload EXCEPT !.secrets = secrets,
                                 !.pc = IF secrets = "installed" THEN "credentials"
                                        ELSE "done"]
    /\ UNCHANGED outsideUpload

\* Credentials.from_authorized_user_info(...); which way the credentials are obtained
upload_load_credentials ==
    /\ upload.pc = "credentials"
    /\ \E creds \in Credentials :
        upload' = [upload EXCEPT !.creds = creds,
                                 !.pc = IF creds = "valid" THEN "upload"
                                        ELSE IF creds = "expired" THEN "refresh"
                                        ELSE "oauth"]
    /\ UNCHANGED outsideUpload

\* creds.refresh(Request()); Secret(...).save(...); except: write the backup file
\* (outside any try: a failure to open it leaves the function as an exception)
upload_refresh ==
    /\ upload.pc = "refresh"
    /\ \E refreshed \in BOOLEAN, saved \in BOOLEAN, backup \in BOOLEAN :
        upload' = [upload EXCEPT
                      !.sent = Append(@, [to |-> "oauth2", op |-> "refresh",
                                          ok |-> refreshed]),
                      !.creds = IF refreshed THEN "valid" ELSE @,
                      !.kept = IF refreshed /\ saved THEN "secret block"
                               ELSE IF backup THEN "backup file" ELSE @,
                      !.pc = IF (refreshed /\ saved) \/ backup THEN "upload"
                             ELSE "raised"]
    /\ UNCHANGED outsideUpload

\* InstalledAppFlow.from_client_config(...).run_local_server(port=8081); save the
\* credentials, or the backup file; except Exception: return None
upload_oauth_flow ==
    /\ upload.pc = "oauth"
    /\ \E authorized \in BOOLEAN, saved \in BOOLEAN, backup \in BOOLEAN :
        upload' = [upload EXCEPT
                      !.sent = Append(@, [to |-> "oauth2", op |-> "authorize",
                                          ok |-> authorized]),
                      !.creds = IF authorized THEN "valid" ELSE @,
                      !.oauth_failed = ~authorized,
                      !.kept = IF authorized /\ saved THEN "secret block"
                               ELSE IF authorized /\ backup THEN "backup file" ELSE @,
                      !.pc = IF authorized /\ (saved \/ backup) THEN "upload"
                             ELSE "done"]
    /\ UNCHANGED outsideUpload

\* build(...), MediaFileUpload(...), youtube.videos().insert(...).execute().
\* built = FALSE: an exception before the request left; accepted = FALSE: execute()
\* raised.
upload_insert ==
    /\ upload.pc = "upload"
    /\ \E built \in BOOLEAN, accepted \in BOOLEAN, video_id \in VideoIds :
        LET executed == built /\ accepted
        IN  upload' = [upload EXCEPT
                          !.sent = IF built
                                   THEN Append(@, [to |-> "youtube", op |-> "insert",
                                                   title |-> video_title(upload.title),
                                                   ok |-> executed,
                                                   id |-> IF executed THEN video_id
                                                          ELSE Missing])
                                   ELSE @,
                          !.value = upload_response(executed, video_id),
                          !.pc = "done"]
    /\ UNCHANGED outsideUpload

NextUpload ==
    \/ upload_video_to_youtube
    \/ upload_load_client_secrets
    \/ upload_load_credentials
    \/ upload_refresh
    \/ upload_oauth_flow
    \/ upload_insert

SpecUpload == InitUpload /\ [][NextUpload]_vars



-----------------------------------------------------------------------------
(* VideoScript.convert_to_video and SpeechSegment.convert_to_video *)

MaxSegments == 3

\* SpeechSegment: text and keywords; the model may hand back an empty keyword list.
SpeechSegment(text, keywords) == [text |-> text, keywords |-> keywords]

SegmentTexts == {"one", "two"}
KeywordLists == {<< >>, <<"k">>}
Segments == {SpeechSegment(t, k) : t \in SegmentTexts, k \in KeywordLists}
SegmentLists == UNION {[1..n -> Segments] : n \in 1..MaxSegments}

\* What the audio and video generators do for a segment: a clip, no visuals (None),
\* or an exception.
Generations == {"clip", "no visuals", "raised"}

\* SpeechSegment.convert_to_video(output_path=None): ValueError for no keywords, raised
\* before the try; the clip; None when there are no visuals or the generation raised.
segment_convert_to_video(segment, generation) ==
    IF segment.keywords = << >> THEN Raise
    ELSE IF generation = "clip" THEN [clip |-> segment.text]
    ELSE None

\* if segment_clip and isinstance(segment_clip, CompositeVideoClip)
is_clip(segment_clip) == segment_clip # None /\ "clip" \in DOMAIN segment_clip

InitVideo ==
    /\ now = 0
    /\ cache_days = 1
    /\ collection = {}
    /\ nextId = 1
    /\ ret = [op |-> "init", at |-> 0]
    /\ lastSave = [u \in URLs |-> None]
    /\ news_client = TRUE
    /\ cache = TRUE
    /\ ScorerIdle
    /\ AgentIdle
    /\ FlowIdle
    /\ LaterIdle

\* VideoScript.convert_to_video(..., output_path): segment_clips = []
video_convert_to_video ==
    /\ video.pc = "idle"
    /\ \E segments \in SegmentLists, output_path \in {Missing, "out.mp4"} :
        video' = [pc |-> "loop", segments |-> segments, output_path |-> output_path,
                  i |-> 1, segment_clips |-> << >>, produced |-> << >>,
                  concatenated |-> << >>, value |-> Missing]
    /\ UNCHANGED outsideVideo

\* for i, segment in enumerate(self.segments): segment.convert_to_video(...); an
\* exception of the segment ends the loop in the except of the script: return None.
\* produced is the history of what each segment gave, concatenated the list handed
\* to concatenate_videoclips.
video_segment ==
    /\ video.pc = "loop"
    /\ video.i <= Len(video.segments)
    /\ \E generation \in Generations :
        LET segment_clip == segment_convert_to_video(video.segments[video.i], generation)
        IN  video' =
              IF segment_clip = Raise
              THEN [video EXCEPT !.pc = "done", !.value = Missing,
                                 !.produced = Append(@, Missing)]
              ELSE [video EXCEPT
                       !.i = @ + 1,
                       !.produced = Append(@, IF is_clip(segment_clip)
                                              THEN segment_clip.clip ELSE Missing),
                       !.segment_clips = IF is_clip(segment_clip)
                                         THEN Append(@, segment_clip) ELSE @]
    /\ UNCHANGED outsideVideo

\* if not segment_clips: return None; concatenate_videoclips(segment_clips);
\* write_videofile when output_path is given; except Exception: return None
video_concatenate ==
    /\ video.pc = "loop"
    /\ video.i > Len(video.segments)
    /\ \E concatenated \in BOOLEAN, written \in BOOLEAN :
        video' =
          IF video.segment_clips = << >>
          THEN [video EXCEPT !.pc = "done", !.value = Missing]
          ELSE [video EXCEPT
                   !.pc = "done",
                   !.concatenated = video.segment_clips,
                   !.value = IF ~concatenated THEN Missing
                             ELSE IF video.output_path = Missing
                             THEN "final_video"
                             ELSE IF written THEN video.output_path ELSE Missing]
    /\ UNCHANGED outsideVideo

NextVideo ==
    \/ video_convert_to_video
    \/ video_segment
    \/ video_concatenate

SpecVideo == InitVideo /\ [][NextVideo]_vars

-----------------------------------------------------------------------------
(* process_all_files: the batch processor of network metrics CSV files *)

MaxFiles == 2

\* The CSV files of the input directory, by name.
FileNames == 1..MaxFiles

\* store_metrics of the block: True, False, or an exception
StoreOutcomes == {"stored", "refused", "raised"}

\* A mutant of the success of a file: the outcome of store_metrics is ignored.
file_success_unstored(parsed, rows, stored) == parsed

\* result["success"] after process_csv_file and the storage of the metrics:
\* store_metrics is called only for a parsed file with metrics.
file_success(parsed, rows, stored) ==
    parsed /\ (rows > 0 => stored = "stored")

\* move_file: dest_dir = PROCESSED_DIR if success else ERROR_DIR
dest_dir(success) == IF success THEN "processed" ELSE "error"

InitBatch ==
    /\ now = 0
    /\ cache_days = 1
    /\ collection = {}
    /\ nextId = 1
    /\ ret = [op |-> "init", at |-> 0]
    /\ lastSave = [u \in URLs |-> None]
    /\ news_client = TRUE
    /\ cache = TRUE
    /\ ScorerIdle
    /\ AgentIdle
    /\ FlowIdle
    /\ news_scoring = [pc |-> "idle"]
    /\ satirist = [pc |-> "idle"]
    /\ runs = [run |-> << >>, computed |-> {}]
    /\ digger = [pc |-> "idle"]
    /\ scripts = {}
    /\ script_ret = [op |-> "init"]
    /\ brief_ret = [op |-> "init"]
    /\ analysis = [pc |-> "idle"]
    /\ upload = [pc |-> "idle"]
    /\ video = [pc |-> "idle"]
    /\ \E input \in SUBSET FileNames :
        batch = [pc |-> "idle", input |-> input, processed |-> {}, error |-> {}]

\* MetricsStorageBlock.load; csv_files = get_csv_files(); summary = {...};
\* if not csv_files: return summary.  os.listdir fixes no order.
process_all_files ==
    /\ batch.pc = "idle"
    /\ \E loaded \in BOOLEAN, csv_files \in Listings(batch.input) :
        batch' =
          IF ~loaded
          THEN [pc |-> "done", input |-> batch.input, processed |-> batch.processed,
                error |-> batch.error, csv_files |-> << >>, k |-> 1, log |-> << >>,
                value |-> [error |-> "Failed to load metrics storage block"]]
          ELSE [pc |-> IF csv_files = << >> THEN "done" ELSE "loop",
                input |-> batch.input, processed |-> batch.processed,
                error |-> batch.error, csv_files |-> csv_files, k |-> 1, log |-> << >>,
                value |-> [total_files |-> Len(csv_files), successful_files |-> 0,
                           failed_files |-> 0, total_metrics |-> 0]]
    /\ UNCHANGED <<now, outsideBatch>>

\* The body of the loop for one file: process_csv_file, store_metrics, the summary,
\* move_file.  moved = FALSE: shutil.move raised, and process_all_files with it.
process_file ==
    /\ batch.pc = "loop"
    /\ batch.k <= Len(batch.csv_files)
    /\ \E parsed \in BOOLEAN, metrics \in 0..1, outcome \in StoreOutcomes,
          moved \in BOOLEAN :
        LET file_path == batch.csv_files[batch.k]
            rows == IF parsed THEN metrics ELSE 0
            stored == IF rows > 0 THEN outcome ELSE "not called"
            success == file_success(parsed, rows, stored)
            summary == IF success
                       THEN [batch.value EXCEPT !.successful_files = @ + 1,
                                                !.total_metrics = @ + rows]
                       ELSE [batch.value EXCEPT !.failed_files = @ + 1]
            entry == [file |-> file_path, parsed |-> parsed, rows |-> rows,
                      stored |-> stored, moved |-> moved]
        IN  batch' =
              IF ~moved
              THEN [batch EXCEPT !.pc = "raised", !.value = summary,
                                 !.log = Append(@, entry)]
              ELSE [batch EXCEPT
                       !.k = @ + 1,
                       !.value = summary,
                       !.log = Append(@, entry),
                       !.input = @ \ {file_path},
                       !.processed = IF dest_dir(success) = "processed"
                                     THEN @ \cup {file_path} ELSE @,
                       !.error = IF dest_dir(success) = "error"
                                 THEN @ \cup {file_path} ELSE @]
    /\ UNCHANGED <<now, outsideBatch>>

\* summary["end_time"] = ...; return summary
process_all_files_return ==
    /\ batch.pc = "loop"
    /\ batch.k > Len(batch.csv_files)
    /\ batch' = [batch EXCEPT !.pc = "done"]
    /\ UNCHANGED <<now, outsideBatch>>

NextBatch ==
    \/ process_all_files
    \/ process_file
    \/ process_all_files_return

SpecBatch == InitBatch /\ [][NextBatch]_vars

-----------------------------------------------------------------------------
(* Claims about the store *)

Expired(d) == d.cached_at < now - cache_days
Live(d) == d.cached_at > now - cache_days

OnePerUrl == \A d, e \in collection : d.url = e.url => d = e

\* A step that saved for url u: the history of u changed.
SaveReplaces ==
    \A u \in URLs :
        lastSave'[u] # lastSave[u] =>
            /\ \E d \in collection' :
                  /\ Matching(collection', u) = {d}
                  /\ d.title = lastSave'[u].title
                  /\ d.score_result = lastSave'[u].score_result
                  /\ d.cached_at = now
                  /\ Matching(collection, u) # {} => d.id = FirstMatch(collection, u).id
            /\ Cardinality(collection') =
                  Cardinality(collection) + (IF Matching(collection, u) = {} THEN 1 ELSE 0)
            /\ \A e \in collection : e.url # u => e \in collection'

\* C1: after any sequence of save_score, get_score, list_scores and cleanup_expired
\* calls the collection holds at most one record per URL, and a save_score for a URL
\* that has a record replaces its title, score and cached_at (the record keeps its
\* identity and no record is added).
C1_OneRecordPerUrl == []OnePerUrl /\ [][SaveReplaces]_vars

\* C1 witness: a record that was saved a second time, with another title, later.
C1_Witness ==
    \E d \in collection :
        /\ lastSave[d.url] # None
        /\ d.cached_at > 0
        /\ d.id = 1
        /\ d.title = "t2"
        /\ ret.op = "save_score" /\ ~ret.raised /\ ret.url = d.url
        /\ Cardinality(collection) = 2

JustReturned(op) == ret.op = op /\ ret.at = now

\* get_score returns a score only for an unexpired record of that URL, the score
\* last saved; None when there is no record or it is expired.
GetScoreSound ==
    JustReturned("get_score") =>
        /\ ret.value # None =>
              /\ \E d \in collection :
                    d.url = ret.url /\ Live(d) /\ d.score_result = ret.value
              /\ lastSave[ret.url] # None
              /\ lastSave[ret.url].score_result = ret.value
        /\ (\A d \in collection : d.url = ret.url => ~Live(d)) => ret.value = None

InWindow(u) ==
    /\ lastSave[u] # None
    /\ lastSave[u].at <= now
    /\ now < lastSave[u].at + cache_days

\* C2 as stated: every lookup made in [t, t + cache_days) returns the score saved
\* at t.
C2_Original ==
    /\ GetScoreSound
    /\ JustReturned("get_score") /\ InWindow(ret.url) =>
           ret.value = lastSave[ret.url].score_result

\* C2 amended: get_score returns a score only for a record of exactly that URL
\* whose cached_at is strictly later than now minus cache_days, the score last
\* saved for the URL, and None when there is no such record; a score saved at t is
\* returned by every lookup made in [t, t + cache_days) whose database query does
\* not raise PyMongoError (a lookup whose query raises returns None).
C2_GetScore ==
    /\ GetScoreSound
    /\ JustReturned("get_score") /\ InWindow(ret.url) =>
           ret.value = (IF ret.ok THEN lastSave[ret.url].score_result ELSE None)
    /\ JustReturned("get_score") /\ lastSave[ret.url] # None /\ ret.ok
         /\ now >= lastSave[ret.url].at + cache_days => ret.value = None

\* C2 witness: a lookup in the last tick of the window of a score saved earlier.
C2_Witness ==
    /\ JustReturned("get_score")
    /\ ret.ok
    /\ InWindow(ret.url)
    /\ now = lastSave[ret.url].at + cache_days - 1
    /\ now > lastSave[ret.url].at
    /\ ret.value = lastSave[ret.url].score_result

CleanupStep == ret'.op = "cleanup_expired" /\ ret' # ret

\* C4 as stated: cleanup_expired deletes the expired records and returns how many.
C4_Original ==
    [][CleanupStep =>
        /\ collection' = {d \in collection : ~Expired(d)}
        /\ ret'.value = Cardinality(collection \ collection')
        /\ \A d \in collection : Live(d) => d \in collection']_vars

\* C4 amended: unless the delete raises PyMongoError, cleanup_expired deletes the
\* records whose cached_at is earlier than now minus cache_days and returns their
\* number; when the delete raises it deletes nothing and returns 0.  Either way
\* every record get_score would still return is left unchanged.
C4_CleanupExpired ==
    [][CleanupStep =>
        /\ ret'.ok => collection' = {d \in collection : ~Expired(d)}
        /\ ~ret'.ok => collection' = collection /\ ret'.value = 0
        /\ collection' \subseteq collection
        /\ ret'.value = Cardinality(collection \ collection')
        /\ \A d \in collection : Live(d) => d \in collection']_vars

\* C4 witness: a cleanup that deleted one record and kept another.
C4_Witness ==
    /\ JustReturned("cleanup_expired")
    /\ ret.ok
    /\ ret.value = 1
    /\ \E d \in collection : Live(d)

-----------------------------------------------------------------------------
(* Claims about dig_for_news and quick_score_articles *)

Last(seq) == seq[Len(seq)]

\* An article has a title, a description and a URL, none of them empty.
Complete(a) ==
    /\ a.title # Missing /\ a.title # ""
    /\ a.description # Missing /\ a.description # ""
    /\ a.url # Missing /\ a.url # ""

AboutArticle(e, i) == e.op # "cleanup_expired" /\ e.i = i

Occurrences(seq, x) == Cardinality({k \in 1..Len(seq) : seq[k] = x})

Returned == pc \in {"cleanup", "done"}

\* The order of the lookups, scorings and saves of one run.
ScoreOnlyOnMiss ==
    \A k \in 1..Len(events) :
        /\ events[k].op = "llm" =>
              /\ k > 1
              /\ events[k - 1].op = "get_score"
              /\ events[k - 1].i = events[k].i
              /\ ~events[k - 1].hit
              /\ k < Len(events) =>
                    events[k + 1].op = "save_score" /\ events[k + 1].i = events[k].i
        /\ events[k].op = "save_score" =>
              /\ k > 1
              /\ events[k - 1].op = "llm"
              /\ events[k - 1].i = events[k].i
              /\ ~events[k].ok => k = Len(events)
        /\ events[k].op = "get_score" /\ k < Len(events) =>
              IF events[k].hit
              THEN ~AboutArticle(events[k + 1], events[k].i)
              ELSE events[k + 1].op = "llm" /\ events[k + 1].i = events[k].i

\* What one step of the run does to the store.
StoreWrittenOnlyBySave ==
    Len(events') = Len(events) + 1 =>
        LET e == Last(events')
        IN  /\ e.op = "get_score" =>
                  /\ collection' = collection
                  /\ e.hit <=> (e.ok /\ \E d \in collection :
                                          d.url = articles[e.i].url /\ Live(d))
            /\ e.op = "llm" => collection' = collection
            /\ e.op = "save_score" /\ e.ok =>
                  \E d \in collection' :
                      /\ Matching(collection', articles[e.i].url) = {d}
                      /\ d.score_result = article_score
                      /\ d.cached_at = now
                      /\ idx' = idx + 1

\* C3: the LLM scorer is called for an article only after the cache lookup of its
\* URL returned no unexpired score, the new score is then saved for that URL before
\* any other article is looked at, and on a cache hit the scorer is not called and
\* the store is not written.
C3_ScoreOnlyOnMiss == []ScoreOnlyOnMiss /\ [][StoreWrittenOnlyBySave]_vars

\* C3 witness: a run whose first article hit the cache and whose second was scored
\* and saved.
C3_Witness ==
    /\ pc = "done"
    /\ Len(events) = 5
    /\ events[1].op = "get_score" /\ events[1].hit
    /\ events[2].op = "get_score" /\ ~events[2].hit /\ events[2].ok
    /\ events[3].op = "llm"
    /\ events[4].op = "save_score" /\ events[4].ok

SortedHighestFirst(seq, Score(_)) ==
    \A k \in 1..(Len(seq) - 1) : Score(seq[k]) >= Score(seq[k + 1])

PairScore(x) == x.score.score
EntryScore(x) == x.comedy_score

\* C6: what quick_score_articles and dig_for_news return is ordered by comedy score,
\* highest first: of two consecutive entries the earlier one's score is greater than
\* or equal to the later one's.
C6_SortedByScore ==
    /\ Returned => SortedHighestFirst(scored_articles, PairScore)
    /\ pc = "done" => SortedHighestFirst(result.value, EntryScore)

\* C6 witness: a returned list of two whose higher score came second in the input.
C6_Witness ==
    /\ pc = "done"
    /\ Len(articles) = 2
    /\ Len(result.value) = 2
    /\ result.value[1].comedy_score > result.value[2].comedy_score
    /\ result.value[1].url = articles[2].url
    /\ result.value[2].url = articles[1].url
    /\ articles[1].url # articles[2].url

\* The run stops early only when it could not start or a save raised.
AbortedOnlyBySave ==
    pc = "raised" /\ events # << >> =>
        Last(events).op = "save_score" /\ ~Last(events).ok

\* When quick_score_articles returned, every complete article was looked up and is
\* in the result once per occurrence in the batch.
AllCompleteProcessed ==
    Returned =>
        /\ \A i \in 1..Len(articles) :
              Complete(articles[i]) =>
                  \E k \in 1..Len(events) :
                      events[k].op = "get_score" /\ events[k].i = i
        /\ \A a \in ArticleValues :
              Cardinality({k \in 1..Len(scored_articles) : scored_articles[k].article = a})
                  = (IF Complete(a) THEN Occurrences(articles, a) ELSE 0)

\* C7: an article whose title, description or URL is missing or empty is not looked
\* up in the cache, not sent to the scorer, not saved and not in the result; the
\* skip does not stop the batch, every other article is still processed.
C7_SkipIncomplete ==
    /\ \A i \in 1..Len(articles) :
          ~Complete(articles[i]) =>
              \A k \in 1..Len(events) : ~AboutArticle(events[k], i)
    /\ \A k \in 1..Len(scored_articles) : Complete(scored_articles[k].article)
    /\ pc = "done" =>
          \A k \in 1..Len(result.value) :
              Complete(Article(result.value[k].title, result.value[k].description,
                               result.value[k].url))
    /\ \A d \in collection : d.url \in URLs
    /\ AbortedOnlyBySave
    /\ AllCompleteProcessed

\* C7 witness: a batch whose first article has no URL and whose second was scored.
C7_Witness ==
    /\ pc = "done"
    /\ Len(articles) = 2
    /\ articles[1].url = Missing
    /\ Len(result.value) = 1
    /\ result.value[1].url = articles[2].url
    /\ \E k \in 1..Len(events) : events[k].op = "save_score" /\ events[k].ok

FailedScoring(i) ==
    \E k \in 1..Len(events) : events[k].op = "llm" /\ events[k].i = i /\ events[k].failed

\* C8: a failed LLM scoring does not abort the batch: it becomes a score of 0 with
\* an error reason for that article, which is saved and returned like any other
\* score, and every remaining article is still looked up, scored and returned.
C8_ScoringFailureContinues ==
    /\ events # << >> /\ Last(events).op = "llm" /\ Last(events).failed =>
          pc = "save" /\ article_score = [score |-> 0, reason |-> ErrorReason]
    /\ AbortedOnlyBySave
    /\ AllCompleteProcessed
    /\ Returned =>
          \A i \in 1..Len(articles) :
              FailedScoring(i) =>
                  \E k \in 1..Len(scored_articles) :
                      /\ scored_articles[k].article = articles[i]
                      /\ scored_articles[k].score = [score |-> 0, reason |-> ErrorReason]

\* C8 witness: the scoring of the first article failed, the second was scored, and
\* both are returned.
C8_Witness ==
    /\ pc = "done"
    /\ Len(articles) = 2
    /\ FailedScoring(1)
    /\ \E k \in 1..Len(events) : events[k].op = "llm" /\ events[k].i = 2 /\ ~events[k].failed
    /\ Len(result.value) = 2
    /\ result.value[2].comedy_score = 0
    /\ result.value[2].score_reason = ErrorReason

\* When dig_for_news returned, cleanup_expired was its last store operation, after
\* every lookup and save of the run.
CleanupLast ==
    pc = "done" =>
        /\ Last(events).op = "cleanup_expired"
        /\ \A k \in 1..(Len(events) - 1) : events[k].op # "cleanup_expired"
        /\ AllCompleteProcessed

\* C10 as stated: when dig_for_news returns, no record is older than the cutoff of
\* its cleanup.
C10_Original ==
    /\ CleanupLast
    /\ pc = "done" =>
          \A d \in collection : ~(d.cached_at < Last(events).at - cache_days)

\* C10 amended: every successful dig_for_news run ends with cleanup_expired,
\* executed only after all articles of the run were scored and saved; when
\* dig_for_news returns and the delete of that cleanup did not raise PyMongoError,
\* the store holds no record whose cached_at is earlier than the cutoff the cleanup
\* used (a cleanup whose delete raises is swallowed and the run still returns).
C10_CleanupAtEnd ==
    /\ CleanupLast
    /\ pc = "done" /\ Last(events).ok =>
          \A d \in collection : ~(d.cached_at < Last(events).at - cache_days)

\* C10 witness: a run that saved a new score and whose cleanup deleted an older record.
C10_Witness ==
    /\ pc = "done"
    /\ Last(events).ok
    /\ \E k \in 1..Len(events) : events[k].op = "save_score" /\ events[k].ok
    /\ nextId = 3
    /\ Cardinality(collection) = 1

-----------------------------------------------------------------------------
(* Claims about BaseAgent *)

\* A response that is a dict with string content.
DictWithStringContent(r) ==
    /\ r.type = "dict"
    /\ r.content.type = "str"

\* The attempts made so far, their order and the outcome agree with the claim.
AttemptsBounded ==
    /\ Len(responses) <= 3
    /\ retry_pc = "returned" =>
          /\ DictWithStringContent(Last(responses))
          /\ retry_result = Last(responses)
          /\ \A k \in 1..(Len(responses) - 1) : ~DictWithStringContent(responses[k])
    /\ retry_pc = "raised" =>
          /\ Len(responses) = 3
          /\ \A k \in 1..3 : ~DictWithStringContent(responses[k])
    /\ retry_pc \in {"waiting", "calling"} =>
          \A k \in 1..Len(responses) : ~DictWithStringContent(responses[k])

\* Once the call has returned or raised, no further attempt is made for the prompt.
NoAttemptAfterOutcome ==
    (retry_pc \in {"returned", "raised", "finished"} /\ responses' # responses)
        => (responses' = << >>)

\* C9: _call_llm_with_retry makes at most 3 attempts at the LLM call for one
\* prompt; it returns the first response that is a dict with string content,
\* without further attempts, and after the third failed attempt it stops and
\* raises instead of calling the LLM again.
C9_AtMostThreeAttempts == []AttemptsBounded /\ [][NoAttemptAfterOutcome]_vars

\* C9 witness: the third attempt failed and the call raised.
C9_Witness ==
    /\ retry_pc = "raised"
    /\ Len(responses) = 3
    /\ responses[3].type = "none"
    /\ responses[1].type = "raise"

-----------------------------------------------------------------------------
(* Claims about the debriefer flow *)

\* C5: with reanalyze_existing false, get_top_articles returns no article for
\* which a brief is already stored; it returns at most limit articles, taken
\* newest-cached first.
C5_Original ==
    (top_articles # None /\ ~top_articles.reanalyze_existing) =>
        /\ \A k \in 1..Len(top_articles.value) :
              top_articles.value[k]._id \notin top_articles.briefed_at_call
        /\ Len(top_articles.value) <= top_articles.limit
        /\ \A i, j \in 1..Len(top_articles.value) :
              i < j => top_articles.value[i].cached_at >= top_articles.value[j].cached_at

-----------------------------------------------------------------------------
(* Claims about news_scoring_flow *)

\* The notification step ends in the next step of the flow with the scored
\* articles it was given, whether or not the webhook loaded and the message went out.
NotificationKeepsResult ==
    news_scoring.pc = "artifact" =>
        /\ news_scoring'.pc = "notified"
        /\ news_scoring'.scored_articles = news_scoring.scored_articles

\* A flow that reached the notification step completes and returns those articles.
NotifiedFlowReturns ==
    /\ news_scoring.pc = "failed" => news_scoring.step # "send_notification"
    /\ news_scoring.pc = "done" => news_scoring.result = news_scoring.scored_articles

\* C11: in news_scoring_flow a failure to load the Teams webhook or to send the
\* notification does not fail the flow and does not change its result: the flow
\* completes and returns the scored articles computed before the notification.
C11_NotificationFailureHarmless ==
    []NotifiedFlowReturns /\ [][NotificationKeepsResult]_vars

\* C11 witness: the flow returned its articles although the webhook did not load.
C11_Witness ==
    /\ news_scoring.pc = "done"
    /\ ~news_scoring.load_ok
    /\ ~news_scoring.sent
    /\ Len(news_scoring.result) = 2

-----------------------------------------------------------------------------
(* Claims about ScriptStorage *)

\* C18: get_scripts_by_source(article_id) returns every stored script whose source
\* articles, as passed to store_script, include article_id, and no other script.
C18_Original ==
    script_ret.op = "get_scripts_by_source" =>
        {script_ret.value[k]._id : k \in 1..Len(script_ret.value)}
            = {str(d.id) : d \in {x \in scripts :
                    \E k \in 1..Len(x.source_articles) :
                        x.source_articles[k] = script_ret.article_id}}

-----------------------------------------------------------------------------
(* Claims about satirist_flow *)

FlowSteps ==
    <<"dig_for_news", "process_articles", "store_script", "convert_to_video",
      "upload_video_to_youtube">>

\* The steps started so far are the first steps of the fixed order.
StepsInOrder ==
    /\ Len(satirist.log) <= Len(FlowSteps)
    /\ satirist.log = SubSeq(FlowSteps, 1, Len(satirist.log))

\* An upload was started only with the script stored and the conversion returned.
UploadAfterStoreAndVideo ==
    (\E k \in 1..Len(satirist.log) : satirist.log[k] = "upload_video_to_youtube") =>
        /\ \E d \in scripts : /\ str(d.id) = satirist.script_id
                              /\ d.title = satirist.script
        /\ satirist.video \in {"path", "none"}

\* With no scored article the flow ends after the scoring step.
NothingWithoutArticles ==
    satirist.top_articles = << >> =>
        /\ satirist.log = <<"dig_for_news">>
        /\ scripts = {}
        /\ satirist.pc = "done"

\* C12: the steps of one run of satirist_flow happen in the fixed order fetch and
\* score, generate the script, store the script, build the video, upload; the
\* upload is never started before the script was stored and the video conversion
\* returned; when scoring returns no articles nothing is generated, stored or uploaded.
C12_FixedOrder ==
    satirist.pc # "idle" =>
        /\ StepsInOrder
        /\ UploadAfterStoreAndVideo
        /\ NothingWithoutArticles

\* C12 witness: a run went through all five steps and uploaded the video.
C12_Witness ==
    /\ satirist.pc = "done"
    /\ satirist.log = FlowSteps
    /\ satirist.video_link = "link"
    /\ Len(satirist.top_articles) = 2

-----------------------------------------------------------------------------
(* Claims about interleaved runs *)

\* Every record holds a score one of the runs computed for the record's URL.
ScoreComputedForUrl ==
    \A d \in collection :
        [url |-> d.url, score_result |-> d.score_result] \in runs.computed

\* C13: when two workflow runs score overlapping URLs against the same score store
\* with their lookup, score and save steps interleaved in any order, the store
\* holds at most one record per URL, and each record holds a score that one of the
\* runs computed for that very URL.
C13_InterleavedRuns ==
    /\ \A d, f \in collection : d.url = f.url => d = f
    /\ ScoreComputedForUrl

\* C13 witness: both runs missed the same URL in the cache, scored it differently
\* and saved it, one save over the other, while the other URL got its own score.
C13_Witness ==
    /\ \A r \in Runs : runs.run[r].pc = "returned"
    /\ \E k \in 1..Len(runs.run[1].scored_articles) :
        /\ runs.run[1].scored_articles[k].article.url = "u1"
        /\ runs.run[1].scored_articles[k].score = ArticleScore(7, "r")
    /\ \E k \in 1..Len(runs.run[2].scored_articles) :
        /\ runs.run[2].scored_articles[k].article.url = "u1"
        /\ runs.run[2].scored_articles[k].score = ArticleScore(0, ErrorReason)
    /\ \E d \in collection : d.url = "u1"
    /\ \E d \in collection : d.url = "u2" /\ d.score_result = ArticleScore(7, "r")

-----------------------------------------------------------------------------
(* Claims about Digger.quick_score_articles *)

\* The events that settled the score of article i: a cache hit, or a fresh scoring.
Settling(i) ==
    {k \in 1..Len(digger.events) :
        /\ digger.events[k].i = i
        /\ \/ digger.events[k].op = "llm"
           \/ digger.events[k].op = "get_cached_score" /\ digger.events[k].hit}

SettledScore(i) == digger.events[CHOOSE k \in Settling(i) : TRUE].score

\* The articles that have to be returned: complete, with a score of at least threshold.
Shortlist ==
    {i \in 1..Len(digger.articles) :
        /\ Complete(digger.articles[i])
        /\ SettledScore(i) >= digger.threshold}

\* The returned list holds each article of the shortlist once, and nothing else.
ReturnsShortlist ==
    /\ \A i \in 1..Len(digger.articles) :
          Cardinality(Settling(i)) = IF Complete(digger.articles[i]) THEN 1 ELSE 0
    /\ Len(digger.result.value) = Cardinality(Shortlist)
    /\ \E f \in [1..Len(digger.result.value) -> Shortlist] :
          /\ \A k, l \in 1..Len(digger.result.value) : k # l => f[k] # f[l]
          /\ \A k \in 1..Len(digger.result.value) :
                /\ digger.result.value[k].original_article = digger.articles[f[k]]
                /\ digger.result.value[k].score = SettledScore(f[k])

\* Every fresh score was handed to cache_score, which succeeded, right after the scoring.
FreshScoresSaved ==
    \A k \in 1..Len(digger.events) :
        digger.events[k].op = "llm" =>
            /\ k < Len(digger.events)
            /\ digger.events[k + 1].op = "cache_score"
            /\ digger.events[k + 1].ok
            /\ digger.events[k + 1].i = digger.events[k].i
            /\ digger.events[k + 1].score = digger.events[k].score

\* A successful cache_score leaves the fresh score in the cache under the article's URL.
SaveReachesCache ==
    (digger.pc = "cache_score" /\ digger'.pc = "loop") =>
        \E d \in collection' :
            /\ d.url = digger.articles[digger.idx].url
            /\ d.score = digger.score.score
            /\ d.cached_at = now

\* C14: Digger.quick_score_articles(articles, threshold) returns exactly the valid
\* articles whose score, cached or newly computed, is at least threshold, while
\* every newly computed score is saved to the cache whether or not it reaches the
\* threshold.
C14_ThresholdShortlist ==
    /\ [](digger.pc = "returned" => (ReturnsShortlist /\ FreshScoresSaved))
    /\ [][SaveReachesCache]_vars

\* C14 witness: with threshold 7 a fresh score of 7 is returned, a fresh score of 5
\* is not, and both are in the cache.
C14_Witness ==
    /\ digger.pc = "returned"
    /\ digger.threshold = 7
    /\ Len(digger.result.value) = 1
    /\ digger.result.value[1].score = 7
    /\ \E k \in 1..Len(digger.events) :
          digger.events[k].op = "llm" /\ digger.events[k].score = 7
    /\ \E d \in collection : d.score = 5 /\ d.cached_at = now
    /\ \E k \in 1..Len(digger.events) :
          digger.events[k].op = "llm" /\ digger.events[k].score = 5

-----------------------------------------------------------------------------
(* Claims about what dig_for_news returns and when it raises *)

\* The events of the run that settled the score of article i: a cache hit or a scoring.
SettlingEvents(i) ==
    {k \in 1..Len(events) :
        /\ events[k].op \in {"get_score", "llm"}
        /\ events[k].i = i
        /\ events[k].op = "get_score" => events[k].hit}

ScoreSettled(i) ==
    LET e == events[CHOOSE k \in SettlingEvents(i) : TRUE]
    IN  IF e.op = "llm" THEN e.score ELSE e.found

CompleteArticles == {i \in 1..Len(articles) : Complete(articles[i])}

\* One entry per complete article, none for the others, each with the article's score.
OneEntryPerArticle ==
    /\ \A i \in 1..Len(articles) :
          Cardinality(SettlingEvents(i)) = IF i \in CompleteArticles THEN 1 ELSE 0
    /\ Len(result.value) = Cardinality(CompleteArticles)
    /\ \E f \in [1..Len(result.value) -> CompleteArticles] :
          /\ \A k, l \in 1..Len(result.value) : k # l => f[k] # f[l]
          /\ \A k \in 1..Len(result.value) :
                /\ result.value[k].title = articles[f[k]].title
                /\ result.value[k].description = articles[f[k]].description
                /\ result.value[k].url = articles[f[k]].url
                /\ result.value[k].comedy_score = ScoreSettled(f[k]).score
                /\ result.value[k].score_reason = ScoreSettled(f[k]).reason

\* Every computed score was saved right after it was computed.
ComputedThenSaved ==
    \A k \in 1..Len(events) :
        events[k].op = "llm" =>
            /\ k < Len(events)
            /\ events[k + 1].op = "save_score"
            /\ events[k + 1].ok
            /\ events[k + 1].i = events[k].i

\* A hit hands back the score of the live record of the article's URL; a save
\* leaves the computed score in the record of the article's URL.
ScoreIsTheCachedOne ==
    /\ (Len(events') = Len(events) + 1 /\ Last(events').op = "get_score"
            /\ Last(events').hit) =>
          \E d \in collection :
              /\ d.url = articles[idx].url
              /\ d.cached_at > now - cache_days
              /\ d.score_result = Last(events').found
    /\ (Len(events') = Len(events) + 1 /\ Last(events').op = "save_score"
            /\ Last(events').ok) =>
          /\ Last(events).op = "llm"
          /\ Last(events).score = article_score
          /\ \E d \in collection' :
              /\ d.url = articles[idx].url
              /\ d.score_result = article_score

RaisedBeforeScoring ==
    /\ pc = "raised"
    /\ result.raised \in {"ValueError", "RuntimeError"}

\* The call starts scoring only with both clients set and a non-empty article list,
\* and raises ValueError whenever a client is missing.
RaisesWhenItShould ==
    (pc = "idle" /\ pc' # "idle") =>
        /\ (~news_client \/ ~cache) => (pc' = "raised" /\ result'.raised = "ValueError")
        /\ pc' = "loop" => (news_client /\ cache /\ articles' # << >>)
        /\ pc' \in {"raised", "loop"}

\* The raising step and everything after it leave the store as it was.
RaisingLeavesStore ==
    (RaisedBeforeScoring \/ RaisedBeforeScoring') => collection' = collection

\* C16: dig_for_news raises an error when the news client returns no articles, and a
\* ValueError when the news client or the cache is not set; in each of these cases no
\* score is saved and cleanup_expired is not run, so the score store is left unchanged.
C16_RaisesBeforeScoring ==
    /\ [][RaisesWhenItShould /\ RaisingLeavesStore]_vars
    /\ [](RaisedBeforeScoring => events = << >>)
    /\ [](pc \in {"done", "cleanup"} => articles # << >>)

\* C16 witness: with both clients set and scores in the store, the news client
\* returned no articles and dig_for_news raised.
C16_Witness ==
    /\ pc = "raised"
    /\ result.raised = "RuntimeError"
    /\ news_client /\ cache
    /\ collection # {}

-----------------------------------------------------------------------------
(* Claims about analyze_articles *)

\* The input articles whose brief the call stored.
BriefStored == {k \in 1..Len(analysis.log) : analysis.log[k].stored}

\* Every article was taken once, in input order, whatever happened to the others.
WholeBatchProcessed ==
    /\ Len(analysis.log) = Len(analysis.articles)
    /\ \A k \in 1..Len(analysis.log) : analysis.log[k].i = k

\* A brief is stored exactly for an article with a URL, fetched content, an analysis
\* and a storage that went through.
StoredUnlessSkipped ==
    \A k \in 1..Len(analysis.log) :
        analysis.log[k].stored <=>
            /\ ~Falsy(get(analysis.articles[k], "url"))
            /\ analysis.log[k].content = "text"
            /\ analysis.log[k].analysed
            /\ analysis.log[k].store_ok

\* The returned list is the stored articles, in input order.
ReturnsStoredInOrder ==
    /\ Len(analysis.analyzed_articles) = Cardinality(BriefStored)
    /\ \E f \in [1..Len(analysis.analyzed_articles) -> BriefStored] :
          /\ \A k, l \in 1..Len(analysis.analyzed_articles) : k < l => f[k] < f[l]
          /\ \A k \in 1..Len(analysis.analyzed_articles) :
                /\ analysis.analyzed_articles[k].article_id =
                      get(analysis.articles[f[k]], "_id")
                /\ analysis.analyzed_articles[k].title =
                      get(analysis.articles[f[k]], "title")

\* The step of a stored article leaves its brief in the collection; the step of a
\* skipped article leaves the collection alone.
StoredMeansInCollection ==
    (analysis.pc = "loop" /\ Len(analysis'.log) = Len(analysis.log) + 1) =>
        LET entry == analysis'.log[Len(analysis'.log)]
        IN  IF entry.stored
            THEN \E b \in briefs' :
                    /\ b.article_id = get(analysis.articles[entry.i], "_id")
                    /\ b.model_output = "brief"
            ELSE briefs' = briefs

\* C17: analyze_articles processes the articles one by one; an article with no URL,
\* with no fetchable content, or whose analysis or brief storage fails is skipped
\* without stopping the batch, and the returned list holds exactly the articles whose
\* brief was stored, in input order.
C17_BatchSkipsFailures ==
    /\ [](analysis.pc # "raised")
    /\ [](analysis.pc = "done" =>
            (WholeBatchProcessed /\ StoredUnlessSkipped /\ ReturnsStoredInOrder))
    /\ [][StoredMeansInCollection]_vars

\* C17 witness: the storage of the first article failed, the second article was
\* analysed and stored, and the call returned the second one alone.
C17_Witness ==
    /\ analysis.pc = "done"
    /\ Len(analysis.articles) >= 2
    /\ ~analysis.log[1].stored
    /\ ~analysis.log[1].store_ok
    /\ analysis.log[1].analysed
    /\ analysis.log[1].content = "text"
    /\ ~Falsy(get(analysis.articles[1], "url"))
    /\ analysis.log[2].stored
    /\ Len(analysis.analyzed_articles) = 1

-----------------------------------------------------------------------------
(* Claims about BriefStorage *)

BriefsOf(coll, article_id) == {b \in coll : b.article_id = article_id}

AtMostOneBrief ==
    \A article_id \in ArticleIds : Cardinality(BriefsOf(briefs, article_id)) <= 1

\* A store_brief that returned left the brief it was given as the only one of its
\* article, and left the briefs of the other articles alone.
StoreBriefReplaces ==
    (brief_ret'.op = "store_brief" /\ ~brief_ret'.raised /\ briefs' # briefs) =>
        /\ \E b \in briefs' :
              /\ BriefsOf(briefs', brief_ret'.article_id) = {b}
              /\ b.model_output = brief_ret'.model_output
              /\ b.timestamp = now
        /\ \A other \in ArticleIds \ {brief_ret'.article_id} :
              BriefsOf(briefs', other) = BriefsOf(briefs, other)

\* A check of an article whose store_brief returned answers True.
CheckedAfterStore ==
    /\ brief_ret.op = "check_article_briefed"
    /\ brief_ret.article_id \in brief_ret.stored

\* C19 as stated: check_article_briefed is true from the moment store_brief for that
\* article_id returned, whatever follows.
C19_Original ==
    CheckedAfterStore => brief_ret.value

\* C19: the brief store holds at most one brief per article_id: store_brief for an
\* article that already has a brief replaces it; from the moment store_brief for an
\* article_id returned, check_article_briefed(article_id) is true whatever other
\* store_brief calls follow, unless its own query raises PyMongoError, in which case
\* it returns False.
C19_OneBriefPerArticle ==
    /\ [](AtMostOneBrief)
    /\ [][StoreBriefReplaces]_vars
    /\ [](CheckedAfterStore => (brief_ret.value <=> brief_ret.ok))

\* C19 witness: the brief of article 1 was stored and then replaced, a brief of
\* article 2 was stored as well, and a later check of article 1 answered True.
C19_Witness ==
    /\ CheckedAfterStore
    /\ brief_ret.article_id = "1"
    /\ brief_ret.ok
    /\ brief_ret.value
    /\ brief_ret.stored = ArticleIds
    /\ \E b \in briefs : b.article_id = "1" /\ b.timestamp > 0 /\ b.id = MaxId + 1
    /\ Cardinality(briefs) = 2

-----------------------------------------------------------------------------
(* Claims about upload_video_to_youtube *)

\* The requests of the call that went to the YouTube API.
SentToYouTube == {k \in 1..Len(upload.sent) : upload.sent[k].to = "youtube"}

\* A link is returned only for an upload request that succeeded, and names its video.
LinkOnlyAfterUpload ==
    upload.value # Missing =>
        /\ upload.sent # << >>
        /\ upload.sent[Len(upload.sent)].to = "youtube"
        /\ upload.sent[Len(upload.sent)].ok
        /\ upload.value = "https://youtu.be/" \o upload.sent[Len(upload.sent)].id

\* A missing file and unusable client secrets end the call with None and no request.
NothingSentWithoutFileOrSecrets ==
    (~upload.file_exists \/ upload.secrets \in {"raised", "invalid"}) =>
        /\ upload.value = Missing
        /\ upload.sent = << >>

\* A failed OAuth flow and a failed upload request end the call with None.
NoneWhenFlowOrUploadFails ==
    /\ upload.oauth_failed => (upload.value = Missing /\ SentToYouTube = {})
    /\ (\E k \in SentToYouTube : ~upload.sent[k].ok) => upload.value = Missing

\* C20: upload_video_to_youtube returns a video link only after the upload request
\* succeeded; when the video file is missing, the client secrets are invalid, the OAuth
\* flow fails or the upload raises, it returns None, and in the first two cases no
\* request is sent to YouTube.
C20_LinkOnlyAfterUpload ==
    upload.pc = "done" =>
        /\ LinkOnlyAfterUpload
        /\ NothingSentWithoutFileOrSecrets
        /\ NoneWhenFlowOrUploadFails

\* C20 witness: the call obtained credentials through the OAuth flow, its upload
\* request succeeded and it returned the link of the video.
C20_Witness ==
    /\ upload.pc = "done"
    /\ upload.value = "https://youtu.be/v2"
    /\ Len(upload.sent) = 2
    /\ upload.sent[1].op = "authorize"

-----------------------------------------------------------------------------
(* Claims about the agreement of lookup and cleanup *)

\* The records of the store that a lookup of their URL, made now without a database
\* error, does not return.
InvisibleToLookup ==
    {d \in collection : get_score(collection, now, cache_days, d.url, TRUE) = None}

\* The records a cleanup made now, without a database error, leaves in the store.
KeptByCleanup == cleanup_expired(collection, now, cache_days, TRUE).collection

\* C23 as stated: at any instant, an existing record that get_score does not return
\* because of its age is deleted by a cleanup_expired executed at that same instant,
\* so no record is both invisible to lookup and kept by cleanup.
C23_Original ==
    InvisibleToLookup \cap KeptByCleanup = {}

-----------------------------------------------------------------------------
(* Claims about VideoScript.convert_to_video *)

\* The clips of the segments that gave one, in script order.
RECURSIVE ClipsProduced(_)
ClipsProduced(produced) ==
    IF produced = << >> THEN << >>
    ELSE IF Head(produced) = Missing THEN ClipsProduced(Tail(produced))
    ELSE <<[clip |-> Head(produced)]>> \o ClipsProduced(Tail(produced))

\* C21 as stated: convert_to_video skips the segments whose video could not be
\* created and concatenates the clips of the remaining segments in script order; it
\* returns None when no segment produced a clip.
C21_Original ==
    video.pc = "done" =>
        IF ClipsProduced(video.produced) = << >>
        THEN video.value = Missing
        ELSE video.concatenated = ClipsProduced(video.produced)

-----------------------------------------------------------------------------
(* Claims about process_all_files *)

BatchStarted == batch.pc # "idle"

\* The file of entry k of the log is in exactly one of the two directories, and in
\* none of them is it still in the input directory.
MovedToOne(k) ==
    LET f == batch.log[k].file
    IN  /\ f \notin batch.input
        /\ (f \in batch.processed) # (f \in batch.error)

\* The file went to processed exactly when it was parsed and its metrics, if it had
\* any, were stored.
ProcessedIffStored(k) ==
    batch.log[k].file \in batch.processed <=>
        /\ batch.log[k].parsed
        /\ batch.log[k].stored \in {"stored", "not called"}

CountsAddUp ==
    /\ batch.value.successful_files + batch.value.failed_files = batch.value.total_files
    /\ batch.value.total_files = Len(batch.csv_files)

====
